---------------------------- MODULE Spec2Model ----------------------------
(***************************************************************************)
(* Verification model of garg-tejas/rag-mosdac.                            *)
(*                                                                         *)
(*   SpecBFS  : find_connected_subgraph (streamlit_app.py)                 *)
(*   SpecBFSFair: the same under weak fairness, for termination            *)
(*   SpecQA   : RAGPipeline.answer_question (src/modules/qa_app.py)        *)
(*   SpecKG   : merge loop of build_knowledge_graph (kg_builder.py)        *)
(*   SpecNorm : normalize_name (kg_builder.py)                             *)
(*   SpecRel  : normalize_relation (kg_builder.py)                         *)
(*   SpecStore: Neo4jKnowledgeGraph.add_entities_and_relationships         *)
(*   SpecBuild: build_knowledge_graph, the whole run (kg_builder.py)       *)
(*   SpecVec  : build_vector_database (src/modules/vector_db_builder.py)   *)
(*   SpecPipe : main (src/run_pipeline.py)                                 *)
(*   SpecConn : cached connection checks of the dashboard                  *)
(*   SpecRag  : get_rag_system_cached and its resets (streamlit_app.py)    *)
(*   SpecStep : run_pipeline_step of the dashboard (streamlit_app.py)      *)
(*                                                                         *)
(* Strings that the code inspects character by character (entity names     *)
(* given to normalize_name) are sequences of one-character strings.        *)
(***************************************************************************)
EXTENDS Integers, Sequences, FiniteSets, TLC

VARIABLES
    \* ---- find_connected_subgraph: arguments, locals, return value
    matching_entities, all_entities, all_relationships, max_depth,
    adjacency, visited, depths, queue, original_matches,
    bfs_pc, bfs_result, bfs_pops,
    \* ---- normalize_name: argument, a restyled argument, return values
    nm_text, nm_variant, nm_out, nm_out2, nm_variant_out, nm_pc,
    \* ---- RAGPipeline.answer_question: argument, locals, return value,
    \*      which collaborator failed, LLM completions made by the call
    n_results, results, context_parts, sources, confidence_scores,
    qa_pc, qa_result, qa_failed, llm_calls,
    \* ---- build_knowledge_graph: number of markdown files, loop index,
    \*      the accumulated graph, the graph extracted from the current
    \*      file, and the accumulated graph as it was before that file
    md_count, md_i, final_kg, kg_part, kg_before, kg_pc,
    \* ---- normalize_relation: argument, return value
    rl_arg, rl_out, rl_pc,
    \* ---- Neo4jKnowledgeGraph.add_entities_and_relationships: argument,
    \*      whether self.driver is set, statements run on the session,
    \*      whether a statement raised
    st_kg, st_driver, st_sent, st_error, st_pc,
    \* ---- build_vector_database: the markdown files (chunks per file), whether
    \*      PINECONE_API_KEY is set, the vectors of the index namespace by
    \*      id, the chunks list of the latest run, which collaborator failed
    vd_files, vd_api_key, vd_index, vd_chunks, vd_failed, vd_pc,
    \* ---- run_pipeline.main: args.step, args.force, the state of
    \*      MARKDOWN_DIR, of the graph store and of the vector index, the
    \*      build steps run so far
    step, force, markdown_dir, neo4j, pinecone, pp_ran, pp_pc,
    \* ---- build_knowledge_graph, the whole run: whether GEMINI_API_KEY is
    \*      set, whether the connection to the graph store was made, the
    \*      number of markdown files, the loop index, final_kg, kg_part,
    \*      final_kg before the current file, what happened to each file so
    \*      far, whether the store was cleared, the external steps of the
    \*      run in order ("clear", "file", "llm", "sleep", "write") and the
    \*      statements run on the store by the save
    bk_api_key, bk_driver, md_files, bk_i, bk_final_kg, bk_part, bk_before, bk_outcomes, bk_cleared, bk_events, bk_sent, bk_pc,
    \* ---- the dashboard session: the clock, st.session_state.connection_status,
    \*      the last cached-status call made, the parity of the number of
    \*      calls, RAGPipeline constructions since the last reset
    cs_now, connection_status, cs_call, cs_seq, rag_built,
    \* ---- the dashboard's pipeline buttons: for each click so far the step
    \*      passed to run_pipeline_step, the module functions it called and
    \*      the message it showed
    rs_history

bfsVars == <<matching_entities, all_entities, all_relationships, max_depth,
             adjacency, visited, depths, queue, original_matches,
             bfs_pc, bfs_result, bfs_pops>>

nmVars == <<nm_text, nm_variant, nm_out, nm_out2, nm_variant_out, nm_pc>>

qaVars == <<n_results, results, context_parts, sources, confidence_scores,
            qa_pc, qa_result, qa_failed, llm_calls>>

kgVars == <<md_count, md_i, final_kg, kg_part, kg_before, kg_pc>>

rlVars == <<rl_arg, rl_out, rl_pc>>

stVars == <<st_kg, st_driver, st_sent, st_error, st_pc>>

vdVars == <<vd_files, vd_api_key, vd_index, vd_chunks, vd_failed, vd_pc>>

ppVars == <<step, force, markdown_dir, neo4j, pinecone, pp_ran, pp_pc>>

bkVars == <<bk_api_key, bk_driver, md_files, bk_i, bk_final_kg, bk_part, bk_before, bk_outcomes, bk_cleared, bk_events, bk_sent, bk_pc>>

csVars == <<cs_now, connection_status, cs_call, cs_seq, rag_built>>

rsVars == <<rs_history>>

vars == <<bfsVars, nmVars, qaVars, kgVars, rlVars, stVars, vdVars, ppVars, bkVars, csVars, rsVars>>

\* What the actions of one operation leave alone
notBfs == <<nmVars, qaVars, kgVars, rlVars, stVars, vdVars, ppVars, bkVars, csVars, rsVars>>
notNm == <<bfsVars, qaVars, kgVars, rlVars, stVars, vdVars, ppVars, bkVars, csVars, rsVars>>
notQa == <<bfsVars, nmVars, kgVars, rlVars, stVars, vdVars, ppVars, bkVars, csVars, rsVars>>
notKg == <<bfsVars, nmVars, qaVars, rlVars, stVars, vdVars, ppVars, bkVars, csVars, rsVars>>
notRl == <<bfsVars, nmVars, qaVars, kgVars, stVars, vdVars, ppVars, bkVars, csVars, rsVars>>
notSt == <<bfsVars, nmVars, qaVars, kgVars, rlVars, vdVars, ppVars, bkVars, csVars, rsVars>>
notVd == <<bfsVars, nmVars, qaVars, kgVars, rlVars, stVars, ppVars, bkVars, csVars, rsVars>>
notPp == <<bfsVars, nmVars, qaVars, kgVars, rlVars, stVars, vdVars, bkVars, csVars, rsVars>>
notBk == <<bfsVars, nmVars, qaVars, kgVars, rlVars, stVars, vdVars, ppVars, csVars, rsVars>>
notCs == <<bfsVars, nmVars, qaVars, kgVars, rlVars, stVars, vdVars, ppVars, bkVars, rsVars>>
notRs == <<bfsVars, nmVars, qaVars, kgVars, rlVars, stVars, vdVars, ppVars, bkVars, csVars>>

-----------------------------------------------------------------------------
\* Generic helpers

Range(s) == {s[k] : k \in DOMAIN s}

SeqsUpTo(S, n) == UNION {[1..k -> S] : k \in 0..n}

RECURSIVE SetMax(_)
SetMax(S) ==
    LET x == CHOOSE y \in S : TRUE
    IN  IF S = {x} THEN x
        ELSE LET m == SetMax(S \ {x}) IN IF x > m THEN x ELSE m

-----------------------------------------------------------------------------
\* ===================== find_connected_subgraph ==========================

\* Bounds of the explored inputs
MaxSeeds == 2
MaxRels == 3
MaxDepthArg == 2

\* Entity names of the explored graphs
Names == {"a", "b", "c", "d"}

\* Entity records carry 'name' (the 'type' field is never read by the
\* traversal).  The graph store keys entities by name, so a collection lists
\* each name once.
Ent(n) == [name |-> n]

EntityCollections ==
    { <<Ent("a"), Ent("b"), Ent("c"), Ent("d")>>,
      <<Ent("a"), Ent("b"), Ent("c")>> }

Rel(s, t) == [source |-> s, target |-> t]

\* Relationships the explored collections are built from: a path a-b-c-d
\* with one edge stored against the direction of travel, an edge closing
\* the cycle, and a self-relationship.
RelPool == { Rel("a", "b"), Rel("c", "b"), Rel("c", "d"),
             Rel("d", "a"), Rel("a", "a") }

SeedNames == {"a", "d"}

\* the early return left out
IsEmptySeedsNever(m) == FALSE

\* streamlit_app.py:1241  `if not matching_entities`
IsEmptySeeds(m) == Len(m) = 0

\* streamlit_app.py:1242  the early return value (no 'max_depth_used' key)
EmptyResult ==
    [entities |-> <<>>, relationships |-> <<>>, depths |-> <<>>,
     original_matches |-> {}, expanded_count |-> 0]

\* streamlit_app.py:1250-1253, with only the source -> target direction
RECURSIVE AddRelsDirected(_, _)
AddRelsDirected(adj, rels) ==
    IF rels = <<>> THEN adj
    ELSE LET r == Head(rels)
             a1 == IF r.source \in DOMAIN adj /\ r.target \in DOMAIN adj
                   THEN [adj EXCEPT ![r.source] = Append(@, r.target)]
                   ELSE adj
         IN  AddRelsDirected(a1, Tail(rels))

\* streamlit_app.py:1250-1253 without the membership test of line 1251
RECURSIVE AddRelsUnchecked(_, _)
AddRelsUnchecked(adj, rels) ==
    IF rels = <<>> THEN adj
    ELSE LET r == Head(rels)
             get(a, n) == IF n \in DOMAIN a THEN a[n] ELSE <<>>
             put(a, n, v) == [m \in DOMAIN a \cup {n} |->
                               IF m = n THEN Append(get(a, n), v) ELSE a[m]]
         IN  AddRelsUnchecked(put(put(adj, r.source, r.target), r.target, r.source),
                              Tail(rels))

\* streamlit_app.py:1250-1253
RECURSIVE AddRels(_, _)
AddRels(adj, rels) ==
    IF rels = <<>> THEN adj
    ELSE LET r == Head(rels)
             a1 == IF r.source \in DOMAIN adj /\ r.target \in DOMAIN adj
                   THEN LET fwd == [adj EXCEPT ![r.source] = Append(@, r.target)]
                        IN  [fwd EXCEPT ![r.target] = Append(@, r.source)]
                   ELSE adj
         IN  AddRels(a1, Tail(rels))

\* streamlit_app.py:1245-1253
BuildAdjacency(ents, rels) ==
    AddRels([n \in {e.name : e \in Range(ents)} |-> <<>>], rels)

\* streamlit_app.py:1262-1268; st = [visited, depths, queue, original_matches]
RECURSIVE SeedLoop(_, _)
SeedLoop(st, seeds) ==
    IF seeds = <<>> THEN st
    ELSE LET entity_name == Head(seeds).name
             st1 == IF entity_name \notin st.visited
                    THEN [visited |-> st.visited \cup {entity_name},
                          depths |-> [n \in DOMAIN st.depths \cup {entity_name} |->
                                        IF n = entity_name THEN 0 ELSE st.depths[n]],
                          queue |-> Append(st.queue, <<entity_name, 0>>),
                          original_matches |-> st.original_matches \cup {entity_name}]
                    ELSE st
         IN  SeedLoop(st1, Tail(seeds))

\* the depth limit left out
StopsExpansionNever(current_depth, d) == FALSE

\* the depth limit with `>` in place of `>=`
StopsExpansionLate(current_depth, d) == current_depth > d

\* streamlit_app.py:1275  `if current_depth >= max_depth: continue`
StopsExpansion(current_depth, d) == current_depth >= d

\* streamlit_app.py:1279  adjacency.get(current_entity, [])
AdjacencyGet(adj, n) == IF n \in DOMAIN adj THEN adj[n] ELSE <<>>

\* the neighbour loop queueing every neighbour, visited or not
RECURSIVE NeighborLoopRequeues(_, _, _)
NeighborLoopRequeues(st, neighbors, current_depth) ==
    IF neighbors = <<>> THEN st
    ELSE LET neighbor == Head(neighbors)
             new_depth == current_depth + 1
             st1 == [visited |-> st.visited \cup {neighbor},
                     depths |-> [n \in DOMAIN st.depths \cup {neighbor} |->
                                   IF n \in DOMAIN st.depths THEN st.depths[n]
                                   ELSE new_depth],
                     queue |-> Append(st.queue, <<neighbor, new_depth>>)]
         IN  NeighborLoopRequeues(st1, Tail(neighbors), current_depth)

\* the neighbour loop without the `not in visited` test on the depth
RECURSIVE NeighborLoopOverwrites(_, _, _)
NeighborLoopOverwrites(st, neighbors, current_depth) ==
    IF neighbors = <<>> THEN st
    ELSE LET neighbor == Head(neighbors)
             new_depth == current_depth + 1
             st1 == [visited |-> st.visited \cup {neighbor},
                     depths |-> [n \in DOMAIN st.depths \cup {neighbor} |->
                                   IF n = neighbor THEN new_depth ELSE st.depths[n]],
                     queue |-> IF neighbor \notin st.visited
                               THEN Append(st.queue, <<neighbor, new_depth>>)
                               ELSE st.queue]
         IN  NeighborLoopOverwrites(st1, Tail(neighbors), current_depth)

\* streamlit_app.py:1279-1284; st = [visited, depths, queue]
RECURSIVE NeighborLoop(_, _, _)
NeighborLoop(st, neighbors, current_depth) ==
    IF neighbors = <<>> THEN st
    ELSE LET neighbor == Head(neighbors)
             new_depth == current_depth + 1
             st1 == IF neighbor \notin st.visited
                    THEN [visited |-> st.visited \cup {neighbor},
                          depths |-> [n \in DOMAIN st.depths \cup {neighbor} |->
                                        IF n = neighbor THEN new_depth ELSE st.depths[n]],
                          queue |-> Append(st.queue, <<neighbor, new_depth>>)]
                    ELSE st
         IN  NeighborLoop(st1, Tail(neighbors), current_depth)

\* streamlit_app.py:1287-1290
ConnectedEntities(ents, vis) == SelectSeq(ents, LAMBDA e : e.name \in vis)

\* streamlit_app.py:1293-1296
ConnectedRelationships(rels, vis) ==
    SelectSeq(rels, LAMBDA r : r.source \in vis /\ r.target \in vis)

\* streamlit_app.py:1304
MaxDepthUsed(dep) ==
    IF DOMAIN dep = {} THEN 0 ELSE SetMax({dep[n] : n \in DOMAIN dep})

BfsInit ==
    /\ matching_entities \in SeqsUpTo({Ent(n) : n \in SeedNames}, MaxSeeds)
    /\ all_entities \in EntityCollections
    /\ all_relationships \in SeqsUpTo(RelPool, MaxRels)
    /\ max_depth \in 0..MaxDepthArg
    /\ adjacency = <<>>
    /\ visited = {}
    /\ depths = <<>>
    /\ queue = <<>>
    /\ original_matches = {}
    /\ bfs_pc = "call"
    /\ bfs_result = EmptyResult
    /\ bfs_pops = 0

\* streamlit_app.py:1241-1242
ReturnEmpty ==
    /\ bfs_pc = "call"
    /\ IsEmptySeeds(matching_entities)
    /\ bfs_result' = EmptyResult
    /\ bfs_pc' = "done"
    /\ UNCHANGED <<matching_entities, all_entities, all_relationships, max_depth,
                   adjacency, visited, depths, queue, original_matches, bfs_pops>>
    /\ UNCHANGED notBfs

\* streamlit_app.py:1244-1268
BuildAndSeed ==
    /\ bfs_pc = "call"
    /\ ~IsEmptySeeds(matching_entities)
    /\ adjacency' = BuildAdjacency(all_entities, all_relationships)
    /\ LET st == SeedLoop([visited |-> {}, depths |-> <<>>, queue |-> <<>>,
                           original_matches |-> {}], matching_entities)
       IN  /\ visited' = st.visited
           /\ depths' = st.depths
           /\ queue' = st.queue
           /\ original_matches' = st.original_matches
    /\ bfs_pc' = "bfs"
    /\ UNCHANGED <<matching_entities, all_entities, all_relationships, max_depth,
                   bfs_result, bfs_pops>>
    /\ UNCHANGED notBfs

\* streamlit_app.py:1271-1284, one iteration of `while queue`
BfsStep ==
    /\ bfs_pc = "bfs"
    /\ queue # <<>>
    /\ LET current_entity == Head(queue)[1]
           current_depth == Head(queue)[2]
           rest == Tail(queue)
       IN  IF StopsExpansion(current_depth, max_depth)
           THEN /\ queue' = rest
                /\ UNCHANGED <<visited, depths>>
           ELSE LET st == NeighborLoop([visited |-> visited, depths |-> depths,
                                        queue |-> rest],
                                       AdjacencyGet(adjacency, current_entity),
                                       current_depth)
                IN  /\ visited' = st.visited
                    /\ depths' = st.depths
                    /\ queue' = st.queue
    /\ bfs_pops' = bfs_pops + 1
    /\ UNCHANGED <<matching_entities, all_entities, all_relationships, max_depth,
                   adjacency, original_matches, bfs_pc, bfs_result>>
    /\ UNCHANGED notBfs

\* streamlit_app.py:1286-1305
Collect ==
    /\ bfs_pc = "bfs"
    /\ queue = <<>>
    /\ LET connected_entities == ConnectedEntities(all_entities, visited)
           connected_relationships == ConnectedRelationships(all_relationships, visited)
       IN  bfs_result' =
             [entities |-> connected_entities,
              relationships |-> connected_relationships,
              depths |-> depths,
              original_matches |-> original_matches,
              expanded_count |-> Len(connected_entities) - Len(matching_entities),
              max_depth_used |-> MaxDepthUsed(depths)]
    /\ bfs_pc' = "done"
    /\ UNCHANGED <<matching_entities, all_entities, all_relationships, max_depth,
                   adjacency, visited, depths, queue, original_matches, bfs_pops>>
    /\ UNCHANGED notBfs


-----------------------------------------------------------------------------
\* =========================== normalize_name =============================

\* Bound on the length of the explored names
MaxNameLen == 3

\* Characters of the explored names: a letter in both cases, a digit, the
\* separators and one other symbol
Chars == {"a", "A", "3", "-", "_", " ", ".", "/", "\\", "!"}

\* str.lower() on the characters the model uses
Lower(c) ==
    CASE c = "A" -> "a"
      [] c = "O" -> "o"
      [] c = "S" -> "s"
      [] OTHER -> c

\* str.strip() with no argument strips whitespace
Whitespace == {" "}

\* the character class of kg_builder.py:35 without \s
SeparatorClassNoSpace == {"-", ".", "/", "\\"}

\* kg_builder.py:35  the character class [-\s\.\/\\]
SeparatorClass == {"-", " ", ".", "/", "\\"}

\* kg_builder.py:38  the characters [a-z0-9_] keeps
AlnumUnderscore == {"a", "3", "_"}

RECURSIVE LStrip(_, _)
LStrip(s, S) ==
    IF s # <<>> /\ Head(s) \in S THEN LStrip(Tail(s), S) ELSE s

RECURSIVE RStrip(_, _)
RStrip(s, S) ==
    IF s # <<>> /\ s[Len(s)] \in S THEN RStrip(SubSeq(s, 1, Len(s) - 1), S) ELSE s

\* str.strip(chars)
Strip(s, S) == RStrip(LStrip(s, S), S)

\* re.sub(r'[S]+', rep, s): every maximal run of characters of S becomes rep
RECURSIVE SubRuns(_, _, _)
SubRuns(s, S, rep) ==
    IF s = <<>> THEN <<>>
    ELSE IF Head(s) \in S
         THEN <<rep>> \o SubRuns(LStrip(Tail(s), S), S, rep)
         ELSE <<Head(s)>> \o SubRuns(Tail(s), S, rep)

\* normalize_name with the strip('_') of line 44 done before line 38
normalize_name_StripEarly(text) ==
    IF text = <<>> THEN <<>>
    ELSE LET stripped == Strip(text, Whitespace)
             lowered == [k \in DOMAIN stripped |-> Lower(stripped[k])]
             separated == SubRuns(lowered, SeparatorClass, "_")
             trimmed == Strip(separated, {"_"})
             cleaned == SelectSeq(trimmed, LAMBDA c : c \in AlnumUnderscore)
         IN  SubRuns(cleaned, {"_"}, "_")

\* kg_builder.py:23-46
normalize_name(text) ==
    IF text = <<>> THEN <<>>
    ELSE LET stripped == Strip(text, Whitespace)
             lowered == [k \in DOMAIN stripped |-> Lower(stripped[k])]
             separated == SubRuns(lowered, SeparatorClass, "_")
             cleaned == SelectSeq(separated, LAMBDA c : c \in AlnumUnderscore)
             collapsed == SubRuns(cleaned, {"_"}, "_")
         IN  Strip(collapsed, {"_"})

NmInit ==
    /\ nm_text \in SeqsUpTo(Chars, MaxNameLen)
    /\ nm_variant = <<>>
    /\ nm_out = <<>>
    /\ nm_out2 = <<>>
    /\ nm_variant_out = <<>>
    /\ nm_pc = "input"

\* normalize_name(x)
NormalizeOnce ==
    /\ nm_pc = "input"
    /\ nm_out' = normalize_name(nm_text)
    /\ nm_pc' = "once"
    /\ UNCHANGED <<nm_text, nm_variant, nm_out2, nm_variant_out>>
    /\ UNCHANGED notNm

\* normalize_name(normalize_name(x))
NormalizeAgain ==
    /\ nm_pc = "once"
    /\ nm_out2' = normalize_name(nm_out)
    /\ nm_pc' = "twice"
    /\ UNCHANGED <<nm_text, nm_variant, nm_out, nm_variant_out>>
    /\ UNCHANGED notNm

\* Two characters that differ at most in letter case or in which of
\* '-', '_' and space they are
SameUpToStyle(c1, c2) ==
    \/ Lower(c1) = Lower(c2)
    \/ {c1, c2} \subseteq {"-", "_", " "}

RECURSIVE Restylings(_)
Restylings(x) ==
    IF x = <<>> THEN {<<>>}
    ELSE {<<c>> \o y : c \in {c2 \in Chars : SameUpToStyle(Head(x), c2)},
                       y \in Restylings(Tail(x))}

\* normalize_name(y) for a restyling y of x
NormalizeVariant ==
    /\ nm_pc = "once"
    /\ \E y \in Restylings(nm_text) :
          /\ nm_variant' = y
          /\ nm_variant_out' = normalize_name(y)
    /\ nm_pc' = "variant"
    /\ UNCHANGED <<nm_text, nm_out, nm_out2>>
    /\ UNCHANGED notNm

-----------------------------------------------------------------------------
\* ===================== RAGPipeline.answer_question ======================

\* Bound on top_k and so on the number of matches a query returns
MaxMatches == 2

\* Matches the vector index may return: with text, with empty text, with
\* no 'text' key, with no 'metadata' key.  Scores stand for the similarity
\* values.
MatchPool ==
    { [metadata |-> [text |-> "t1", source |-> "s1"], score |-> 9],
      [metadata |-> [text |-> "t2", source |-> "s2"], score |-> 7],
      [metadata |-> [text |-> "t3"], score |-> 5],
      [metadata |-> [text |-> "", source |-> "s1"], score |-> 4],
      [metadata |-> [source |-> "s2"], score |-> 3],
      [score |-> 2] }

\* qa_app.py:59-62
MatchText(match) ==
    IF "metadata" \in DOMAIN match /\ "text" \in DOMAIN match.metadata
    THEN match.metadata.text ELSE ""

MatchSource(match) ==
    IF "metadata" \in DOMAIN match /\ "source" \in DOMAIN match.metadata
    THEN match.metadata.source ELSE "Document"

MatchScore(match) == IF "score" \in DOMAIN match THEN match.score ELSE 0

\* the test of line 66 left out
HasTextAlways(match) == TRUE

\* qa_app.py:66  `if text`
HasText(match) == MatchText(match) # ""

\* the test of line 73 left out
NoContextNever(parts) == FALSE

\* qa_app.py:73  `if not context_parts`
NoContext(parts) == Len(parts) = 0

\* qa_app.py:51, 75, 112: the three plain-string return values
NoMatchesMessage ==
    [str |-> "I couldn't find any relevant information to answer your question."]

NoContentMessage ==
    [str |-> "I couldn't find any relevant content to answer your question."]

ErrorMessage ==
    [str |-> "I encountered an error while processing your question: ..."]

\* no call has returned yet
NoResult == [none |-> TRUE]

QaIdle ==
    /\ n_results = 0
    /\ results = [matches |-> <<>>]
    /\ context_parts = <<>>
    /\ sources = <<>>
    /\ confidence_scores = <<>>
    /\ qa_pc = "idle"
    /\ qa_result = NoResult
    /\ qa_failed = "none"
    /\ llm_calls = 0

\* qa_app.py:30  a call answer_question(query, n_results)
Ask ==
    /\ qa_pc = "idle"
    /\ n_results' \in 1..MaxMatches
    /\ results' = [matches |-> <<>>]
    /\ context_parts' = <<>>
    /\ sources' = <<>>
    /\ confidence_scores' = <<>>
    /\ qa_result' = NoResult
    /\ qa_failed' = "none"
    /\ llm_calls' = 0
    /\ qa_pc' = "embed"
    /\ UNCHANGED notQa

\* qa_app.py:34  the embedding model returns a vector
EmbedOk ==
    /\ qa_pc = "embed"
    /\ qa_pc' = "query"
    /\ UNCHANGED <<n_results, results, context_parts, sources, confidence_scores,
                   qa_result, qa_failed, llm_calls>>
    /\ UNCHANGED notQa

\* qa_app.py:34, 110-112  the embedding model raises
EmbedFail ==
    /\ qa_pc = "embed"
    /\ qa_failed' = "embedding"
    /\ qa_result' = ErrorMessage
    /\ qa_pc' = "returned"
    /\ UNCHANGED <<n_results, results, context_parts, sources, confidence_scores,
                   llm_calls>>
    /\ UNCHANGED notQa

\* qa_app.py:37-42  the index returns at most top_k matches
QueryOk ==
    /\ qa_pc = "query"
    /\ \E m \in SeqsUpTo(MatchPool, n_results) : results' = [matches |-> m]
    /\ qa_pc' = "assemble"
    /\ UNCHANGED <<n_results, context_parts, sources, confidence_scores,
                   qa_result, qa_failed, llm_calls>>
    /\ UNCHANGED notQa

\* qa_app.py:37-42, 110-112  the index query raises
QueryFail ==
    /\ qa_pc = "query"
    /\ qa_failed' = "query"
    /\ qa_result' = ErrorMessage
    /\ qa_pc' = "returned"
    /\ UNCHANGED <<n_results, results, context_parts, sources, confidence_scores,
                   llm_calls>>
    /\ UNCHANGED notQa

\* qa_app.py:49-78
Assemble ==
    /\ qa_pc = "assemble"
    /\ IF Len(results.matches) = 0
       THEN /\ qa_result' = NoMatchesMessage
            /\ qa_pc' = "returned"
            /\ UNCHANGED <<context_parts, sources, confidence_scores>>
       ELSE LET kept == SelectSeq(results.matches, HasText)
                parts == [k \in DOMAIN kept |->
                            <<"[Source: ", MatchSource(kept[k]), "]\n",
                              MatchText(kept[k])>>]
            IN  /\ context_parts' = parts
                /\ sources' = [k \in DOMAIN kept |-> MatchSource(kept[k])]
                /\ confidence_scores' = [k \in DOMAIN kept |-> MatchScore(kept[k])]
                /\ IF NoContext(parts)
                   THEN /\ qa_result' = NoContentMessage
                        /\ qa_pc' = "returned"
                   ELSE /\ qa_pc' = "llm"
                        /\ UNCHANGED qa_result
    /\ UNCHANGED <<n_results, results, qa_failed, llm_calls>>
    /\ UNCHANGED notQa

\* qa_app.py:92-108  the completion returns
LlmOk ==
    /\ qa_pc = "llm"
    /\ llm_calls' = llm_calls + 1
    /\ qa_result' = [answer |-> "llm answer",
                     sources |-> sources,
                     confidence_scores |-> confidence_scores,
                     context_used |-> Len(context_parts)]
    /\ qa_pc' = "returned"
    /\ UNCHANGED <<n_results, results, context_parts, sources, confidence_scores,
                   qa_failed>>
    /\ UNCHANGED notQa

\* qa_app.py:92-98, 110-112  the completion raises
LlmFail ==
    /\ qa_pc = "llm"
    /\ llm_calls' = llm_calls + 1
    /\ qa_failed' = "llm"
    /\ qa_result' = ErrorMessage
    /\ qa_pc' = "returned"
    /\ UNCHANGED <<n_results, results, context_parts, sources, confidence_scores>>
    /\ UNCHANGED notQa

\* the caller takes the return value; the pipeline is ready for the next call
Finish ==
    /\ qa_pc = "returned"
    /\ qa_pc' = "idle"
    /\ UNCHANGED <<n_results, results, context_parts, sources, confidence_scores,
                   qa_result, qa_failed, llm_calls>>
    /\ UNCHANGED notQa

-----------------------------------------------------------------------------
\* ============== build_knowledge_graph: the merge loop ===================

\* Bounds: markdown files of a run, entities and relationships of one
\* extraction result
MaxDocs == 2
MaxPartEntities == 2
MaxPartRels == 2

\* Strings the model spells out
S_sat == <<"s", "a", "t">>
S_org == <<"o", "r", "g">>
S_satellite == <<"s", "a", "t", "e", "l", "l", "i", "t", "e">>
S_organization == <<"o", "r", "g", "a", "n", "i", "z", "a", "t", "i", "o", "n">>
S_unknown == <<"u", "n", "k", "n", "o", "w", "n">>
S_runs == <<"r", "u", "n", "s">>
S_operates == <<"o", "p", "e", "r", "a", "t", "e", "s">>
S_relates_to == <<"r", "e", "l", "a", "t", "e", "s", "_", "t", "o">>

\* dict.get(key, default) on a table of <<key, value>> pairs
TableGet(table, key, default) ==
    IF \E e \in table : e[1] = key
    THEN (CHOOSE e \in table : e[1] = key)[2]
    ELSE default

LowerSeq(s) == [k \in DOMAIN s |-> Lower(s[k])]

\* kg_builder.py:57-80, the entries for the explored types
type_mappings ==
    { <<S_satellite, S_satellite>>, <<S_sat, S_satellite>>,
      <<S_organization, S_organization>>, <<S_org, S_organization>> }

\* kg_builder.py:48-82
normalize_type(text) ==
    IF text = <<>> THEN S_unknown
    ELSE LET t == LowerSeq(Strip(text, Whitespace))
         IN  TableGet(type_mappings, t, t)

\* kg_builder.py:93-136, the entries for the explored relations
relation_mappings ==
    { <<S_operates, S_operates>>, <<S_runs, S_operates>> }

\* kg_builder.py:84-141
normalize_relation(text) ==
    IF text = <<>> THEN S_relates_to
    ELSE LET t == LowerSeq(Strip(text, Whitespace))
             u == SubRuns(t, {"-", " "}, "_")
         IN  TableGet(relation_mappings, u, u)

\* kg_builder.py:148-154  Entity.__init__
EntityInit(data) ==
    [name |-> normalize_name(data.name), type |-> normalize_type(data.type)]

\* kg_builder.py:161-169  Relationship.__init__
RelationshipInit(data) ==
    [source |-> normalize_name(data.source),
     target |-> normalize_name(data.target),
     relation |-> normalize_relation(data.relation)]

\* kg_builder.py:171-173  KnowledgeGraph()
EmptyKG == [entities |-> <<>>, relationships |-> <<>>]

\* kg_builder.py:380  KnowledgeGraph.model_validate(parsed_data)
ModelValidate(parsed_data) ==
    [entities |-> [k \in DOMAIN parsed_data.entities |->
                      EntityInit(parsed_data.entities[k])],
     relationships |-> [k \in DOMAIN parsed_data.relationships |->
                      RelationshipInit(parsed_data.relationships[k])]]

\* What the LLM may name: one entity written in two styles, a second
\* entity, and a name that normalizes to the empty string
RawEntityPool ==
    { [name |-> <<"A", "-", "3">>, type |-> <<"S", "a", "t">>],
      [name |-> <<"a", " ", "3">>, type |-> S_org],
      [name |-> <<"3">>, type |-> S_org],
      [name |-> <<"!">>, type |-> S_sat] }

RawRelPool ==
    { [source |-> <<"A", "-", "3">>, target |-> <<"3">>, relation |-> S_runs],
      [source |-> <<"a", "_", "3">>, target |-> <<"3">>,
       relation |-> <<"O", "p", "e", "r", "a", "t", "e", "s">>],
      [source |-> <<"3">>, target |-> <<"!">>, relation |-> S_runs] }

ParsedData ==
    [entities : SeqsUpTo(RawEntityPool, MaxPartEntities),
     relationships : SeqsUpTo(RawRelPool, MaxPartRels)]

\* lines 459-464 without line 463: names seen in this batch are not recorded
RECURSIVE MergeEntitiesNoAdd(_, _, _)
MergeEntitiesNoAdd(ents, existing_entity_names, part) ==
    IF part = <<>> THEN ents
    ELSE LET entity == Head(part)
         IN  IF entity.name # <<>> /\ entity.name \notin existing_entity_names
             THEN MergeEntitiesNoAdd(Append(ents, entity), existing_entity_names,
                                     Tail(part))
             ELSE MergeEntitiesNoAdd(ents, existing_entity_names, Tail(part))

\* kg_builder.py:459-464
RECURSIVE MergeEntities(_, _, _)
MergeEntities(ents, existing_entity_names, part) ==
    IF part = <<>> THEN ents
    ELSE LET entity == Head(part)
         IN  IF entity.name # <<>> /\ entity.name \notin existing_entity_names
             THEN MergeEntities(Append(ents, entity),
                                existing_entity_names \cup {entity.name},
                                Tail(part))
             ELSE MergeEntities(ents, existing_entity_names, Tail(part))

\* kg_builder.py:471
RelTuple(rel) == <<rel.source, rel.target, rel.relation>>

\* lines 469-475 without line 474: triples seen in this batch are not recorded
RECURSIVE MergeRelationshipsNoAdd(_, _, _)
MergeRelationshipsNoAdd(rels, existing_relationships, part) ==
    IF part = <<>> THEN rels
    ELSE LET rel == Head(part)
             rel_tuple == RelTuple(rel)
         IN  IF /\ rel.source # <<>>
                /\ rel.target # <<>>
                /\ rel_tuple \notin existing_relationships
             THEN MergeRelationshipsNoAdd(Append(rels, rel), existing_relationships,
                                          Tail(part))
             ELSE MergeRelationshipsNoAdd(rels, existing_relationships, Tail(part))

\* kg_builder.py:469-475
RECURSIVE MergeRelationships(_, _, _)
MergeRelationships(rels, existing_relationships, part) ==
    IF part = <<>> THEN rels
    ELSE LET rel == Head(part)
             rel_tuple == RelTuple(rel)
         IN  IF /\ rel.source # <<>>
                /\ rel.target # <<>>
                /\ rel_tuple \notin existing_relationships
             THEN MergeRelationships(Append(rels, rel),
                                     existing_relationships \cup {rel_tuple},
                                     Tail(part))
             ELSE MergeRelationships(rels, existing_relationships, Tail(part))

\* assignment of the extraction result in place of the merge
MergeReplaces(kg, part) == part

\* kg_builder.py:455-475
Merge(kg, part) ==
    IF part.entities # <<>> \/ part.relationships # <<>>
    THEN [entities |->
            MergeEntities(kg.entities,
                          {kg.entities[k].name : k \in DOMAIN kg.entities},
                          part.entities),
          relationships |->
            MergeRelationships(kg.relationships,
                               {RelTuple(kg.relationships[k]) :
                                    k \in DOMAIN kg.relationships},
                               part.relationships)]
    ELSE kg

KgIdle ==
    /\ md_count = 0
    /\ md_i = 0
    /\ final_kg = EmptyKG
    /\ kg_part = EmptyKG
    /\ kg_before = EmptyKG
    /\ kg_pc = "idle"

\* kg_builder.py:429-443  the run reaches the loop with at least one file
KgInit ==
    /\ md_count \in 1..MaxDocs
    /\ md_i = 0
    /\ final_kg = EmptyKG
    /\ kg_part = EmptyKG
    /\ kg_before = EmptyKG
    /\ kg_pc = "loop"

\* kg_builder.py:443-477  a file whose extraction yields a graph
ProcessFile ==
    /\ kg_pc = "loop"
    /\ md_i < md_count
    /\ \E parsed_data \in ParsedData :
          LET part == ModelValidate(parsed_data)
          IN  /\ kg_part' = part
              /\ final_kg' = Merge(final_kg, part)
    /\ kg_before' = final_kg
    /\ kg_pc' = "after_file"
    /\ UNCHANGED <<md_count, md_i>>
    /\ UNCHANGED notKg

\* kg_builder.py:354-404, 478-479  the extraction fails and yields KnowledgeGraph()
ProcessFileExtractionFails ==
    /\ kg_pc = "loop"
    /\ md_i < md_count
    /\ kg_part' = EmptyKG
    /\ final_kg' = Merge(final_kg, EmptyKG)
    /\ kg_before' = final_kg
    /\ kg_pc' = "after_file"
    /\ UNCHANGED <<md_count, md_i>>
    /\ UNCHANGED notKg

\* kg_builder.py:450, 480-481  a file with empty or whitespace-only content
ProcessEmptyFile ==
    /\ kg_pc = "loop"
    /\ md_i < md_count
    /\ kg_before' = final_kg
    /\ kg_pc' = "after_file"
    /\ UNCHANGED <<md_count, md_i, final_kg, kg_part>>
    /\ UNCHANGED notKg

\* kg_builder.py:443, 487-490  the end of one iteration; the next iteration
\* assigns kg_part before reading it, so its old value is dropped here
NextFile ==
    /\ kg_pc = "after_file"
    /\ md_i' = md_i + 1
    /\ kg_part' = EmptyKG
    /\ kg_before' = final_kg
    /\ kg_pc' = "loop"
    /\ UNCHANGED <<md_count, final_kg>>
    /\ UNCHANGED notKg

\* kg_builder.py:443  the loop ends after the last file
LoopEnds ==
    /\ kg_pc = "loop"
    /\ md_i = md_count
    /\ kg_pc' = "merged"
    /\ UNCHANGED <<md_count, md_i, final_kg, kg_part, kg_before>>
    /\ UNCHANGED notKg

-----------------------------------------------------------------------------
\* ========================= normalize_relation ===========================
\* normalize_relation as a function of an arbitrary argument
\* (src/modules/kg_builder.py)

MaxRelLen == 3

RelChars == {"a", "A", " ", "-", "_"}

\* A Python value given as the argument: a str with its characters, or a
\* value that is not a str (None, a number)
PyStr(s) == [is_str |-> TRUE, chars |-> s]

PyNotStr == [is_str |-> FALSE, chars |-> <<>>]

RelationArgs ==
    {PyStr(s) : s \in SeqsUpTo(RelChars, MaxRelLen) \cup {S_runs, S_relates_to}}
        \cup {PyNotStr}

\* kg_builder.py:84-141  the isinstance test of line 86 sends every
\* non-str to the default; a str goes through lines 86-141
normalize_relation_call(v) ==
    IF ~v.is_str THEN S_relates_to ELSE normalize_relation(v.chars)

RlIdle ==
    /\ rl_arg = PyNotStr
    /\ rl_out = <<>>
    /\ rl_pc = "idle"

RlInit ==
    /\ rl_arg \in RelationArgs
    /\ rl_out = <<>>
    /\ rl_pc = "call"

NormalizeRelation ==
    /\ rl_pc = "call"
    /\ rl_out' = normalize_relation_call(rl_arg)
    /\ rl_pc' = "done"
    /\ UNCHANGED <<rl_arg, notRl>>

-----------------------------------------------------------------------------
\* ========= Neo4jKnowledgeGraph.add_entities_and_relationships ===========

\* Relationships of the explored graphs: those the LLM may name and a
\* self-relationship
StoreRelPool ==
    RawRelPool \cup {[source |-> <<"3">>, target |-> <<"3">>, relation |-> S_runs]}

\* The KnowledgeGraph values given to the method (every Entity and
\* Relationship is built by its __init__)
StoreKGs ==
    {ModelValidate(p) :
        p \in [entities : SeqsUpTo(RawEntityPool, MaxPartEntities),
               relationships : SeqsUpTo(StoreRelPool, MaxPartRels)]}

\* kg_builder.py:232-233  `if not entity.name or entity.name.strip() == ""`
SendsEntity(entity) ==
    ~(entity.name = <<>> \/ Strip(entity.name, Whitespace) = <<>>)

\* lines 253-254 without the self-relationship test of lines 257-258
SendsRelationshipSelf(rel) ==
    ~(\/ rel.source = <<>> \/ rel.target = <<>>
      \/ Strip(rel.source, Whitespace) = <<>>
      \/ Strip(rel.target, Whitespace) = <<>>)

\* kg_builder.py:253-258
SendsRelationship(rel) ==
    /\ ~(\/ rel.source = <<>> \/ rel.target = <<>>
         \/ Strip(rel.source, Whitespace) = <<>>
         \/ Strip(rel.target, Whitespace) = <<>>)
    /\ rel.source # rel.target

\* kg_builder.py:235-244  the MERGE statement of one entity
EntityStatement(entity) ==
    [op |-> "merge_entity", name |-> entity.name, type |-> entity.type]

\* kg_builder.py:260-272  the MERGE statement of one relationship
RelationshipStatement(rel) ==
    [op |-> "merge_relationship", source_name |-> rel.source,
     target_name |-> rel.target, relation |-> rel.relation]

\* kg_builder.py:230-275  the statements of one call, in the order run
StoreStatements(kg) ==
    LET es == SelectSeq(kg.entities, SendsEntity)
        rs == SelectSeq(kg.relationships, SendsRelationship)
    IN  [k \in DOMAIN es |-> EntityStatement(es[k])]
            \o [k \in DOMAIN rs |-> RelationshipStatement(rs[k])]

StIdle ==
    /\ st_kg = EmptyKG
    /\ st_driver = FALSE
    /\ st_sent = <<>>
    /\ st_error = FALSE
    /\ st_pc = "idle"

StInit ==
    /\ st_kg \in StoreKGs
    /\ st_driver \in BOOLEAN
    /\ st_sent = <<>>
    /\ st_error = FALSE
    /\ st_pc = "call"

\* kg_builder.py:222-224  no connection: warning, nothing is run
AddWithoutDriver ==
    /\ st_pc = "call"
    /\ ~st_driver
    /\ st_pc' = "done"
    /\ UNCHANGED <<st_kg, st_driver, st_sent, st_error, notSt>>

\* kg_builder.py:226-277  every statement is run
AddEntitiesAndRelationships ==
    /\ st_pc = "call"
    /\ st_driver
    /\ st_sent' = StoreStatements(st_kg)
    /\ st_pc' = "done"
    /\ UNCHANGED <<st_kg, st_driver, st_error, notSt>>

\* kg_builder.py:226-280  opening the session or the (n+1)-th statement
\* raises: the statements before it were run, the exception is logged and
\* the call returns
AddRaises ==
    /\ st_pc = "call"
    /\ st_driver
    /\ \E n \in 0..Len(StoreStatements(st_kg)) :
          st_sent' = SubSeq(StoreStatements(st_kg), 1, n)
    /\ st_error' = TRUE
    /\ st_pc' = "done"
    /\ UNCHANGED <<st_kg, st_driver, notSt>>

-----------------------------------------------------------------------------
\* ========================= build_vector_database ========================
\* (src/modules/vector_db_builder.py)

MaxChunks == 2

\* gpu_utils.py:157  get_recommended_batch_size() without a GPU
batch_size == 8

\* Markdown files under MARKDOWN_DIR, as <<sub-directory, base name>>; the
\* crawler writes an index.md into every directory of a URL that ends
\* in '/'
VdPaths == {<<"a", "index.md">>, <<"b", "index.md">>, <<"a", "page.md">>}

\* A document set gives every path the number of chunks its text splits
\* into; 0 stands for a file that is absent or has no content
DocSets == [VdPaths -> 0..MaxChunks]

\* vector_db_builder.py:72  f"{os.path.basename(doc['source'])}_{i}"
ChunkId(source, i) == <<source[2], i>>

\* vector_db_builder.py:68-74  the chunks of one document
DocChunks(source, n) ==
    [k \in 1..n |-> [source |-> source, id |-> ChunkId(source, k - 1),
                     text |-> <<source, k - 1>>]]

\* vector_db_builder.py:61-63  the orders in which rglob may list the
\* files that have content
Orders(files) ==
    LET S == {f \in VdPaths : files[f] > 0}
    IN  {o \in [1..Cardinality(S) -> S] :
            \A i, j \in DOMAIN o : i # j => o[i] # o[j]}

\* vector_db_builder.py:66-74  the chunks list
RECURSIVE Chunks(_, _)
Chunks(files, order) ==
    IF order = <<>> THEN <<>>
    ELSE DocChunks(Head(order), files[Head(order)]) \o Chunks(files, Tail(order))

\* vector_db_builder.py:103-117  index.upsert of the vectors of cs, in order
RECURSIVE Upsert(_, _)
Upsert(index, cs) ==
    IF cs = <<>> THEN index
    ELSE LET c == Head(cs)
         IN  Upsert([i \in DOMAIN index \cup {c.id} |->
                        IF i = c.id THEN [text |-> c.text, source |-> c.source]
                        ELSE index[i]],
                    Tail(cs))

VdIdle ==
    /\ vd_files = [f \in VdPaths |-> 0]
    /\ vd_api_key = FALSE
    /\ vd_index = <<>>
    /\ vd_chunks = <<>>
    /\ vd_failed = "none"
    /\ vd_pc = "idle"

\* a first build into a new index
VdInit ==
    /\ vd_files \in DocSets
    /\ vd_api_key \in BOOLEAN
    /\ vd_index = <<>>
    /\ vd_chunks = <<>>
    /\ vd_failed = "none"
    /\ vd_pc = "start"

\* vector_db_builder.py:33-36
BuildWithoutKey ==
    /\ vd_pc \in {"start", "changed"}
    /\ ~vd_api_key
    /\ vd_pc' = "returned"
    /\ UNCHANGED <<vd_files, vd_api_key, vd_index, vd_chunks, vd_failed, notVd>>

\* vector_db_builder.py:24-133  a run in which every batch is embedded
BuildVectorDatabase ==
    /\ vd_pc \in {"start", "changed"}
    /\ vd_api_key
    /\ \E order \in Orders(vd_files) :
          /\ vd_chunks' = Chunks(vd_files, order)
          /\ vd_index' = Upsert(vd_index, Chunks(vd_files, order))
    /\ vd_pc' = IF vd_pc = "start" THEN "built" ELSE "rebuilt"
    /\ UNCHANGED <<vd_files, vd_api_key, vd_failed, notVd>>

\* vector_db_builder.py:87-117  model.encode raises on batch b + 1: the
\* batches before it are in the index and the exception leaves the function
BuildEncodeRaises ==
    /\ vd_pc \in {"start", "changed"}
    /\ vd_api_key
    /\ \E order \in Orders(vd_files) :
          LET cs == Chunks(vd_files, order)
          IN  /\ cs # <<>>
              /\ vd_chunks' = cs
              /\ \E b \in 0..((Len(cs) - 1) \div batch_size) :
                    vd_index' = Upsert(vd_index, SubSeq(cs, 1, b * batch_size))
    /\ vd_failed' = "embedding"
    /\ vd_pc' = "raised"
    /\ UNCHANGED <<vd_files, vd_api_key, notVd>>

\* Between two builds the documents change (files are added, removed,
\* shortened or extended)
ChangeDocuments ==
    /\ vd_pc = "built"
    /\ vd_files' \in DocSets
    /\ vd_pc' = "changed"
    /\ UNCHANGED <<vd_api_key, vd_index, vd_chunks, vd_failed, notVd>>

-----------------------------------------------------------------------------
\* ============================ run_pipeline.main =========================
\* (src/run_pipeline.py)

\* run_pipeline.py:70-71  the choices of --step
Steps == {"crawl", "kg", "vectordb", "qa", "all"}

\* run_pipeline.py:76, 85, 94, 103  `args.step == st or args.step == 'all'`
Selected(st) == step = st \/ step = "all"

\* run_pipeline.py:18-27  None or False when the store cannot be reached
check_neo4j_has_entities(store) == store.reachable /\ store.entities

\* run_pipeline.py:29-38
clear_neo4j_graph(store) ==
    IF store.reachable THEN [store EXCEPT !.entities = FALSE] ELSE store

\* run_pipeline.py:40-55  False when the index cannot be reached
check_pinecone_has_vectors(idx) == idx.reachable /\ idx.vectors

\* run_pipeline.py:57-65  fetches the index and logs; deletes nothing
clear_pinecone_index(idx) == idx

PpIdle ==
    /\ step = "qa"
    /\ force = FALSE
    /\ markdown_dir = "absent"
    /\ neo4j = [reachable |-> FALSE, entities |-> FALSE]
    /\ pinecone = [reachable |-> FALSE, vectors |-> FALSE]
    /\ pp_ran = {}
    /\ pp_pc = "idle"

\* run_pipeline.py:67-74
PpInit ==
    /\ step \in Steps
    /\ force \in BOOLEAN
    /\ markdown_dir \in {"absent", "empty", "files"}
    /\ neo4j \in [reachable : BOOLEAN, entities : BOOLEAN]
    /\ pinecone \in [reachable : BOOLEAN, vectors : BOOLEAN]
    /\ pp_ran = {}
    /\ pp_pc = "crawl"

\* run_pipeline.py:76-83
StageCrawl ==
    /\ pp_pc = "crawl"
    /\ pp_pc' = "kg"
    /\ IF Selected("crawl")
       THEN LET dir == IF force /\ markdown_dir # "absent"
                       THEN "absent" ELSE markdown_dir
            IN  IF dir # "files"
                THEN /\ pp_ran' = pp_ran \cup {"crawl"}
                     /\ markdown_dir' \in {dir, "files"}
                ELSE /\ markdown_dir' = dir
                     /\ UNCHANGED pp_ran
       ELSE UNCHANGED <<markdown_dir, pp_ran>>
    /\ UNCHANGED <<step, force, neo4j, pinecone, notPp>>

\* run_pipeline.py:85-92
StageKg ==
    /\ pp_pc = "kg"
    /\ pp_pc' = "vectordb"
    /\ IF Selected("kg")
       THEN LET store == IF force /\ check_neo4j_has_entities(neo4j)
                         THEN clear_neo4j_graph(neo4j) ELSE neo4j
            IN  IF ~check_neo4j_has_entities(store)
                THEN /\ pp_ran' = pp_ran \cup {"kg"}
                     /\ \E e \in BOOLEAN :
                           neo4j' = IF store.reachable
                                    THEN [store EXCEPT !.entities = e] ELSE store
                ELSE /\ neo4j' = store
                     /\ UNCHANGED pp_ran
       ELSE UNCHANGED <<neo4j, pp_ran>>
    /\ UNCHANGED <<step, force, markdown_dir, pinecone, notPp>>

\* run_pipeline.py:94-101
StageVectordb ==
    /\ pp_pc = "vectordb"
    /\ pp_pc' = "qa"
    /\ IF Selected("vectordb")
       THEN LET idx == IF force /\ check_pinecone_has_vectors(pinecone)
                       THEN clear_pinecone_index(pinecone) ELSE pinecone
            IN  IF ~check_pinecone_has_vectors(idx)
                THEN /\ pp_ran' = pp_ran \cup {"vectordb"}
                     /\ \E v \in BOOLEAN :
                           pinecone' = IF idx.reachable
                                       THEN [idx EXCEPT !.vectors = v] ELSE idx
                ELSE /\ pinecone' = idx
                     /\ UNCHANGED pp_ran
       ELSE UNCHANGED <<pinecone, pp_ran>>
    /\ UNCHANGED <<step, force, markdown_dir, neo4j, notPp>>

\* run_pipeline.py:103-104
StageQa ==
    /\ pp_pc = "qa"
    /\ pp_pc' = "done"
    /\ pp_ran' = IF Selected("qa") THEN pp_ran \cup {"qa"} ELSE pp_ran
    /\ UNCHANGED <<step, force, markdown_dir, neo4j, pinecone, notPp>>

-----------------------------------------------------------------------------
\* ================= build_knowledge_graph: the whole run =================

\* What acompletion may do, by the branch of extract_kg_directly (lines
\* 354-404) it leads to:
\*   raises          the call raises
\*   blank           the content is empty or whitespace only
\*   json            the content is JSON of the entity/relationship schema
\*   json_other      the content is JSON that does not match the schema
\*   wrapped_json    the content is not JSON; its first-'{'-to-last-'}' part
\*                   is JSON of the schema
\*   wrapped_other   ... is JSON that does not match the schema
\*   wrapped_invalid ... is not JSON
\*   no_braces       the content is not JSON and has no '{' before a '}'
NoData == [entities |-> <<>>, relationships |-> <<>>]

FailureKinds ==
    {"raises", "blank", "json_other", "wrapped_other", "wrapped_invalid",
     "no_braces"}

LlmFailures == {[kind |-> k, data |-> NoData] : k \in FailureKinds}

\* Answers of at most one entity and one relationship
LlmAnswers ==
    {[kind |-> k, data |-> p] :
        k \in {"json", "wrapped_json"},
        p \in [entities : SeqsUpTo(RawEntityPool, 1),
               relationships : SeqsUpTo(RawRelPool, 1)]}

\* kg_builder.py:354-404
extract_kg_directly(response) ==
    CASE response.kind = "raises" -> EmptyKG           \* lines 402-404
      [] response.kind = "blank" -> EmptyKG            \* lines 369-371
      [] response.kind = "json" -> ModelValidate(response.data)
      [] response.kind = "json_other" -> EmptyKG       \* line 380 raises, 402-404
      [] response.kind = "wrapped_json" -> ModelValidate(response.data)
      [] response.kind = "wrapped_other" -> EmptyKG    \* line 394 raises, 398-400
      [] response.kind = "wrapped_invalid" -> EmptyKG  \* line 392 raises, 398-400
      [] response.kind = "no_braces" -> EmptyKG        \* lines 395-397

\* the save placed inside the loop
LoopIsOverAnytime(i, n) == TRUE

\* kg_builder.py:443  the for loop has gone through md_files
LoopIsOver(i, n) == i = n

\* the delay left out
DelaysNever(i, n) == FALSE

\* kg_builder.py:488  `if i < len(md_files) - 1`
Delays(i, n) == i < n - 1

BkIdle ==
    /\ bk_api_key = FALSE
    /\ bk_driver = FALSE
    /\ md_files = 0
    /\ bk_i = 0
    /\ bk_final_kg = EmptyKG
    /\ bk_part = EmptyKG
    /\ bk_before = EmptyKG
    /\ bk_outcomes = <<>>
    /\ bk_cleared = FALSE
    /\ bk_events = <<>>
    /\ bk_sent = <<>>
    /\ bk_pc = "idle"

\* kg_builder.py:407-411  a call of build_knowledge_graph
BkInit ==
    /\ bk_api_key \in BOOLEAN
    /\ bk_driver \in BOOLEAN
    /\ md_files \in 0..MaxDocs
    /\ bk_i = 0
    /\ bk_final_kg = EmptyKG
    /\ bk_part = EmptyKG
    /\ bk_before = EmptyKG
    /\ bk_outcomes = <<>>
    /\ bk_cleared = FALSE
    /\ bk_events = <<>>
    /\ bk_sent = <<>>
    /\ bk_pc = "start"

\* kg_builder.py:411-432  no API key, no connection or no markdown file
ReturnEarly ==
    /\ bk_pc = "start"
    /\ ~bk_api_key \/ ~bk_driver \/ md_files = 0
    /\ bk_pc' = "returned"
    /\ UNCHANGED <<bk_api_key, bk_driver, md_files, bk_i, bk_final_kg, bk_part,
                   bk_before, bk_outcomes, bk_cleared, bk_events, bk_sent>>
    /\ UNCHANGED notBk

\* kg_builder.py:441, 208-218  clear_graph: the DETACH DELETE statement
\* either clears the store or raises, and the exception is logged inside
\* clear_graph
ClearGraph ==
    /\ bk_pc = "start"
    /\ bk_api_key /\ bk_driver /\ md_files > 0
    /\ bk_cleared' \in BOOLEAN
    /\ bk_events' = Append(bk_events, "clear")
    /\ bk_pc' = "loop"
    /\ UNCHANGED <<bk_api_key, bk_driver, md_files, bk_i, bk_final_kg, bk_part,
                   bk_before, bk_outcomes, bk_sent>>
    /\ UNCHANGED notBk

\* kg_builder.py:443-479  a file with content: the LLM is called and the
\* extraction result is merged
ExtractFile ==
    /\ bk_pc = "loop"
    /\ bk_i < md_files
    /\ \E response \in LlmAnswers \cup LlmFailures :
          LET part == extract_kg_directly(response)
          IN  /\ bk_part' = part
              /\ bk_final_kg' = Merge(bk_final_kg, part)
              /\ bk_outcomes' = Append(bk_outcomes, response.kind)
    /\ bk_before' = bk_final_kg
    /\ bk_events' = bk_events \o <<"file", "llm">>
    /\ bk_pc' = "after_file"
    /\ UNCHANGED <<bk_api_key, bk_driver, md_files, bk_i, bk_cleared, bk_sent>>
    /\ UNCHANGED notBk

\* kg_builder.py:450, 480-481  a file with empty or whitespace-only content
EmptyFile ==
    /\ bk_pc = "loop"
    /\ bk_i < md_files
    /\ bk_part' = EmptyKG
    /\ bk_before' = bk_final_kg
    /\ bk_outcomes' = Append(bk_outcomes, "empty_file")
    /\ bk_events' = Append(bk_events, "file")
    /\ bk_pc' = "after_file"
    /\ UNCHANGED <<bk_api_key, bk_driver, md_files, bk_i, bk_final_kg,
                   bk_cleared, bk_sent>>
    /\ UNCHANGED notBk

\* kg_builder.py:448, 483-485  read_text raises: the except branch logs
\* and continues with the next file, without the delay of lines 487-490
FileRaises ==
    /\ bk_pc = "loop"
    /\ bk_i < md_files
    /\ bk_i' = bk_i + 1
    /\ bk_part' = EmptyKG
    /\ bk_before' = bk_final_kg
    /\ bk_outcomes' = Append(bk_outcomes, "read_raises")
    /\ bk_events' = Append(bk_events, "file")
    /\ UNCHANGED <<bk_api_key, bk_driver, md_files, bk_final_kg, bk_cleared,
                   bk_sent, bk_pc>>
    /\ UNCHANGED notBk

\* kg_builder.py:487-490  the end of an iteration, with the delay when a
\* file follows
EndOfIteration ==
    /\ bk_pc = "after_file"
    /\ bk_i' = bk_i + 1
    /\ bk_events' = IF Delays(bk_i, md_files)
                    THEN Append(bk_events, "sleep") ELSE bk_events
    /\ bk_pc' = "loop"
    /\ UNCHANGED <<bk_api_key, bk_driver, md_files, bk_final_kg, bk_part,
                   bk_before, bk_outcomes, bk_cleared, bk_sent>>
    /\ UNCHANGED notBk

\* kg_builder.py:493, 220-280  after the last file,
\* add_entities_and_relationships(final_kg): every statement is run, or a
\* statement raises after n of them and the exception is logged inside the
\* method
SaveToNeo4j ==
    /\ bk_pc = "loop"
    /\ LoopIsOver(bk_i, md_files)
    /\ \E n \in 0..Len(StoreStatements(bk_final_kg)) :
          bk_sent' = SubSeq(StoreStatements(bk_final_kg), 1, n)
    /\ bk_events' = Append(bk_events, "write")
    /\ bk_pc' = "done"
    /\ UNCHANGED <<bk_api_key, bk_driver, md_files, bk_i, bk_final_kg, bk_part,
                   bk_before, bk_outcomes, bk_cleared>>
    /\ UNCHANGED notBk

-----------------------------------------------------------------------------
\* ================= the dashboard's cached connection status ==============
\* (streamlit_app.py)

\* Bound on the time explored, in cache periods
MaxTicks == 2

\* streamlit_app.py:62, 103  `if time_since_check < 300`
CacheSeconds == 300

\* The clock starts positive (time.time() is seconds since 1970)
MaxClock == 1 + MaxTicks * CacheSeconds

\* Time that passes between two calls, and while a store is being asked
TickSteps == {CacheSeconds - 1, CacheSeconds}

QueryDurations == {0, CacheSeconds - 1}

NoneValue == "None"

\* the instance a successful RAGPipeline() yields
RagInstance == "RAGPipeline"

\* streamlit_app.py:50-51  (last_check: <<>> is None, <<t>> a time)
Unchecked ==
    [checked |-> FALSE, connected |-> FALSE, last_check |-> <<>>, error |-> NoneValue]

\* streamlit_app.py:52
RagEmpty == [initialized |-> FALSE, instance |-> NoneValue, error |-> NoneValue]

\* streamlit_app.py:46-53
init_connection_state ==
    [pinecone |-> Unchecked, neo4j |-> Unchecked, rag_system |-> RagEmpty]

\* truth value of conn_state['last_check']: None and 0 are false
LastCheckTruthy(last_check) == last_check # <<>> /\ last_check[1] # 0

\* the cache test with `<=` in place of `<`
IsFreshInclusive(conn_state, t) ==
    /\ conn_state.checked
    /\ LastCheckTruthy(conn_state.last_check)
    /\ t - conn_state.last_check[1] <= CacheSeconds

\* streamlit_app.py:60-63, 101-104
IsFresh(conn_state, t) ==
    /\ conn_state.checked
    /\ LastCheckTruthy(conn_state.last_check)
    /\ t - conn_state.last_check[1] < CacheSeconds

\* conn_state.update({'checked': True, ...})
Recorded(connected, t, error) ==
    [checked |-> TRUE, connected |-> connected, last_check |-> <<t>>, error |-> error]

\* What a check of the vector index meets: the API key set or not, the
\* index raising or not, the number of vectors of the namespace
PineconeEnvs ==
    { [api_key |-> FALSE, raises |-> FALSE, vector_count |-> 0],
      [api_key |-> TRUE, raises |-> TRUE, vector_count |-> 0],
      [api_key |-> TRUE, raises |-> FALSE, vector_count |-> 0],
      [api_key |-> TRUE, raises |-> FALSE, vector_count |-> 1] }

\* What a check of the graph store meets: get_neo4j_session returning a
\* session or None, the count query raising or not, the number of entities
Neo4jEnvs ==
    { [session |-> FALSE, raises |-> FALSE, count |-> 0],
      [session |-> TRUE, raises |-> TRUE, count |-> 0],
      [session |-> TRUE, raises |-> FALSE, count |-> 0],
      [session |-> TRUE, raises |-> FALSE, count |-> 1] }

\* streamlit_app.py:55-94; t is the clock at line 61, t2 when the result is
\* recorded.  Yields the new cache entry, the value returned and whether
\* the index was asked.
check_pinecone_connection_cached(conn_state, t, env, t2) ==
    IF IsFresh(conn_state, t)
    THEN [state |-> conn_state, returned |-> conn_state.connected, queried |-> FALSE]
    ELSE IF ~env.api_key
    THEN [state |-> Recorded(FALSE, t, "API key not found"),
          returned |-> FALSE, queried |-> FALSE]
    ELSE IF env.raises
    THEN [state |-> Recorded(FALSE, t2, "exception"),
          returned |-> FALSE, queried |-> TRUE]
    ELSE LET is_connected == env.vector_count > 0
         IN  [state |-> Recorded(is_connected, t2, NoneValue),
              returned |-> is_connected, queried |-> TRUE]

\* streamlit_app.py:96-131
check_neo4j_connection_cached(conn_state, t, env, t2) ==
    IF IsFresh(conn_state, t)
    THEN [state |-> conn_state, returned |-> conn_state.connected, queried |-> FALSE]
    ELSE IF ~env.session
    THEN [state |-> Recorded(FALSE, t2, "Failed to create session"),
          returned |-> FALSE, queried |-> TRUE]
    ELSE IF env.raises
    THEN [state |-> Recorded(FALSE, t2, "exception"),
          returned |-> FALSE, queried |-> TRUE]
    ELSE LET is_connected == env.count > 0
         IN  [state |-> Recorded(is_connected, t2, NoneValue),
              returned |-> is_connected, queried |-> TRUE]

\* the cache test of get_rag_system_cached left out
RagIsCachedNever(rag_state) == FALSE

\* streamlit_app.py:138  `if rag_state['initialized'] and rag_state['instance']`
RagIsCached(rag_state) == rag_state.initialized /\ rag_state.instance # NoneValue

\* streamlit_app.py:133-153; constructs tells whether RAGPipeline() returns
\* or raises.  Yields the new entry, the value returned and what the
\* construction did ("none" when it was not attempted).
get_rag_system_cached(rag_state, constructs) ==
    IF RagIsCached(rag_state)
    THEN [state |-> rag_state, returned |-> rag_state.instance, constructed |-> "none"]
    ELSE IF constructs
    THEN [state |-> [initialized |-> TRUE, instance |-> RagInstance, error |-> NoneValue],
          returned |-> RagInstance, constructed |-> "ok"]
    ELSE [state |-> [initialized |-> FALSE, instance |-> NoneValue, error |-> "exception"],
          returned |-> NoneValue, constructed |-> "raised"]

\* the record kept of the last call
Call(fn, queried, constructed, connected, instance) ==
    [fn |-> fn, queried |-> queried, constructed |-> constructed,
     connected |-> connected, instance |-> instance]

NoCall == Call("none", {}, "none", FALSE, NoneValue)

\* streamlit_app.py:1397  the session starts with init_connection_state()
CsInit ==
    /\ cs_now = 1
    /\ connection_status = init_connection_state
    /\ cs_call = NoCall
    /\ cs_seq = 0
    /\ rag_built = 0

CsIdle == CsInit

\* time passes between two calls
Tick ==
    /\ \E d \in TickSteps :
          /\ cs_now + d <= MaxClock
          /\ cs_now' = cs_now + d
    /\ UNCHANGED <<connection_status, cs_call, cs_seq, rag_built>>
    /\ UNCHANGED notCs

\* streamlit_app.py:55-94  a call of check_pinecone_connection_cached
CheckPinecone ==
    /\ \E env \in PineconeEnvs, d \in QueryDurations :
          /\ cs_now + d <= MaxClock
          /\ LET r == check_pinecone_connection_cached(connection_status.pinecone,
                                                        cs_now, env, cs_now + d)
             IN  /\ connection_status' = [connection_status EXCEPT !.pinecone = r.state]
                 /\ cs_now' = IF r.queried THEN cs_now + d ELSE cs_now
                 /\ cs_call' = Call("check_pinecone_connection_cached",
                                    IF r.queried THEN {"pinecone"} ELSE {},
                                    "none", r.returned, NoneValue)
    /\ cs_seq' = 1 - cs_seq
    /\ UNCHANGED rag_built
    /\ UNCHANGED notCs

\* streamlit_app.py:96-131  a call of check_neo4j_connection_cached
CheckNeo4j ==
    /\ \E env \in Neo4jEnvs, d \in QueryDurations :
          /\ cs_now + d <= MaxClock
          /\ LET r == check_neo4j_connection_cached(connection_status.neo4j,
                                                     cs_now, env, cs_now + d)
             IN  /\ connection_status' = [connection_status EXCEPT !.neo4j = r.state]
                 /\ cs_now' = IF r.queried THEN cs_now + d ELSE cs_now
                 /\ cs_call' = Call("check_neo4j_connection_cached",
                                    IF r.queried THEN {"neo4j"} ELSE {},
                                    "none", r.returned, NoneValue)
    /\ cs_seq' = 1 - cs_seq
    /\ UNCHANGED rag_built
    /\ UNCHANGED notCs

\* streamlit_app.py:133-153  a call of get_rag_system_cached
GetRagSystem ==
    /\ \E constructs \in BOOLEAN :
          LET r == get_rag_system_cached(connection_status.rag_system, constructs)
          IN  /\ connection_status' = [connection_status EXCEPT !.rag_system = r.state]
              /\ cs_call' = Call("get_rag_system_cached", {}, r.constructed,
                                 FALSE, r.returned)
              /\ rag_built' = IF r.constructed = "ok" THEN rag_built + 1 ELSE rag_built
    /\ cs_seq' = 1 - cs_seq
    /\ UNCHANGED cs_now
    /\ UNCHANGED notCs

\* streamlit_app.py:155-164  refresh_connection_status: the reset, then both
\* checks
RefreshConnectionStatus ==
    /\ \E penv \in PineconeEnvs, nenv \in Neo4jEnvs, d1, d2 \in QueryDurations :
          LET p == check_pinecone_connection_cached(init_connection_state.pinecone,
                                                    cs_now, penv, cs_now + d1)
              t == IF p.queried THEN cs_now + d1 ELSE cs_now
              n == check_neo4j_connection_cached(init_connection_state.neo4j,
                                                 t, nenv, t + d2)
          IN  /\ t + d2 <= MaxClock
              /\ connection_status' =
                    [pinecone |-> p.state, neo4j |-> n.state,
                     rag_system |-> init_connection_state.rag_system]
              /\ cs_now' = IF n.queried THEN t + d2 ELSE t
              /\ cs_call' = Call("refresh_connection_status",
                                 (IF p.queried THEN {"pinecone"} ELSE {}) \cup
                                 (IF n.queried THEN {"neo4j"} ELSE {}),
                                 "none", n.returned, NoneValue)
    /\ cs_seq' = 1 - cs_seq
    /\ rag_built' = 0
    /\ UNCHANGED notCs

\* streamlit_app.py:1028-1033  the retry button shown when
\* get_rag_system_cached returned None
RetryRagInitialization ==
    /\ cs_call.fn = "get_rag_system_cached"
    /\ cs_call.instance = NoneValue
    /\ connection_status' = [connection_status EXCEPT !.rag_system = RagEmpty]
    /\ cs_call' = Call("retry", {}, "none", FALSE, NoneValue)
    /\ cs_seq' = 1 - cs_seq
    /\ rag_built' = 0
    /\ UNCHANGED cs_now
    /\ UNCHANGED notCs

-----------------------------------------------------------------------------
\* ==================== the dashboard's run_pipeline_step ==================
\* (streamlit_app.py)

\* Bound on the number of button clicks of a session
MaxClicks == 3

\* The functions the three modules define
\* (crawler.py:10, 29; kg_builder.py:23-516; vector_db_builder.py:14, 24, 135)
ModuleFunctions ==
    [crawler |-> {"save_markdown_content", "run_crawl"},
     kg_builder |-> {"normalize_name", "normalize_type", "normalize_relation",
                     "extract_kg_directly", "build_knowledge_graph",
                     "get_neo4j_session"},
     vector_db_builder |-> {"read_text_from_file", "build_vector_database",
                            "get_pinecone_index"}]

\* Whether the called function raises, for each module
StepEnvs == [crawler : BOOLEAN, kg_builder : BOOLEAN, vector_db_builder : BOOLEAN]

NoError == "none"

\* A call module.name(): AttributeError when the module has no such
\* attribute, else the function is called and returns or raises
Invoke(module, name, env) ==
    IF name \notin ModuleFunctions[module]
    THEN [called |-> <<>>, error |-> "AttributeError"]
    ELSE [called |-> << <<module, name>> >>,
          error |-> IF env[module] THEN "exception" ELSE NoError]

\* streamlit_app.py:390-428; yields the calls made and the message shown
run_pipeline_step(step_arg, env) ==
    IF step_arg = "crawl"
    THEN LET r == Invoke("crawler", "build_knowledge_graph", env)
         IN  [calls |-> r.called,
              message |-> IF r.error = NoError THEN "Crawling completed!"
                          ELSE "Crawling failed"]
    ELSE IF step_arg = "kg"
    THEN LET r == Invoke("kg_builder", "build_knowledge_graph", env)
         IN  [calls |-> r.called,
              message |-> IF r.error = NoError THEN "Knowledge graph built!"
                          ELSE "Knowledge graph building failed"]
    ELSE IF step_arg = "vectordb"
    THEN LET r == Invoke("vector_db_builder", "build_vector_database", env)
         IN  [calls |-> r.called,
              message |-> IF r.error = NoError THEN "Vector database built!"
                          ELSE "Vector database building failed"]
    ELSE IF step_arg = "all"
    THEN LET k == Invoke("kg_builder", "build_knowledge_graph", env)
             v == Invoke("vector_db_builder", "build_vector_database", env)
         IN  IF k.error # NoError
             THEN [calls |-> k.called, message |-> "Pipeline failed"]
             ELSE [calls |-> k.called \o v.called,
                   message |-> IF v.error = NoError THEN "Full pipeline completed!"
                               ELSE "Pipeline failed"]
    ELSE [calls |-> <<>>, message |-> NoError]

\* what is noted of one click: the step passed, the calls made, the message
Noted(step_arg, r) == [step |-> step_arg, calls |-> r.calls, message |-> r.message]

RsIdle == rs_history = <<>>

\* streamlit_app.py:373-374  the button "Run Crawling"
ClickCrawl ==
    /\ Len(rs_history) < MaxClicks
    /\ \E env \in StepEnvs :
          rs_history' = Append(rs_history, Noted("crawl", run_pipeline_step("crawl", env)))
    /\ UNCHANGED notRs

\* streamlit_app.py:377-379  the button "Build Knowledge Graph"
ClickKg ==
    /\ Len(rs_history) < MaxClicks
    /\ \E env \in StepEnvs :
          rs_history' = Append(rs_history, Noted("kg", run_pipeline_step("kg", env)))
    /\ UNCHANGED notRs

\* streamlit_app.py:382-383  the button "Build Vector Database"
ClickVectordb ==
    /\ Len(rs_history) < MaxClicks
    /\ \E env \in StepEnvs :
          rs_history' = Append(rs_history, Noted("vectordb", run_pipeline_step("vectordb", env)))
    /\ UNCHANGED notRs

\* streamlit_app.py:387-388  the button "Run Full Pipeline"
ClickAll ==
    /\ Len(rs_history) < MaxClicks
    /\ \E env \in StepEnvs :
          rs_history' = Append(rs_history, Noted("all", run_pipeline_step("all", env)))
    /\ UNCHANGED notRs

-----------------------------------------------------------------------------
\* ========================== Specifications ==============================

\* The other operations at rest
NmIdle ==
    /\ nm_text = <<>>
    /\ nm_variant = <<>>
    /\ nm_out = <<>>
    /\ nm_out2 = <<>>
    /\ nm_variant_out = <<>>
    /\ nm_pc = "idle"

BfsIdle ==
    /\ matching_entities = <<>>
    /\ all_entities = <<>>
    /\ all_relationships = <<>>
    /\ max_depth = 0
    /\ adjacency = <<>>
    /\ visited = {}
    /\ depths = <<>>
    /\ queue = <<>>
    /\ original_matches = {}
    /\ bfs_pc = "idle"
    /\ bfs_result = EmptyResult
    /\ bfs_pops = 0

InitBFS == BfsInit /\ NmIdle /\ QaIdle /\ KgIdle /\ RlIdle /\ StIdle /\ VdIdle /\ PpIdle /\ BkIdle /\ CsIdle /\ RsIdle

NextBFS == ReturnEmpty \/ BuildAndSeed \/ BfsStep \/ Collect

SpecBFS == InitBFS /\ [][NextBFS]_vars

\* find_connected_subgraph is straight-line sequential code: once called,
\* the statement it has reached is executed.  The calls explored are those
\* with the largest depth limit, which cuts the traversal short the latest.
InitBFSFair == InitBFS /\ max_depth = MaxDepthArg

SpecBFSFair == InitBFSFair /\ [][NextBFS]_vars /\ WF_vars(NextBFS)

InitNorm == NmInit /\ BfsIdle /\ QaIdle /\ KgIdle /\ RlIdle /\ StIdle /\ VdIdle /\ PpIdle /\ BkIdle /\ CsIdle /\ RsIdle

NextNorm == NormalizeOnce \/ NormalizeAgain \/ NormalizeVariant

SpecNorm == InitNorm /\ [][NextNorm]_vars

InitQA == QaIdle /\ BfsIdle /\ NmIdle /\ KgIdle /\ RlIdle /\ StIdle /\ VdIdle /\ PpIdle /\ BkIdle /\ CsIdle /\ RsIdle

NextQA ==
    \/ Ask \/ EmbedOk \/ EmbedFail \/ QueryOk \/ QueryFail
    \/ Assemble \/ LlmOk \/ LlmFail \/ Finish

SpecQA == InitQA /\ [][NextQA]_vars

InitKG == KgInit /\ BfsIdle /\ NmIdle /\ QaIdle /\ RlIdle /\ StIdle /\ VdIdle /\ PpIdle /\ BkIdle /\ CsIdle /\ RsIdle

NextKG ==
    \/ ProcessFile \/ ProcessFileExtractionFails \/ ProcessEmptyFile
    \/ NextFile \/ LoopEnds

SpecKG == InitKG /\ [][NextKG]_vars

InitRel == RlInit /\ BfsIdle /\ NmIdle /\ QaIdle /\ KgIdle /\ StIdle /\ VdIdle /\ PpIdle /\ BkIdle /\ CsIdle /\ RsIdle

NextRel == NormalizeRelation

SpecRel == InitRel /\ [][NextRel]_vars

InitStore == StInit /\ BfsIdle /\ NmIdle /\ QaIdle /\ KgIdle /\ RlIdle /\ VdIdle /\ PpIdle /\ BkIdle /\ CsIdle /\ RsIdle

NextStore == AddWithoutDriver \/ AddEntitiesAndRelationships \/ AddRaises

SpecStore == InitStore /\ [][NextStore]_vars

InitVec == VdInit /\ BfsIdle /\ NmIdle /\ QaIdle /\ KgIdle /\ RlIdle /\ StIdle /\ PpIdle /\ BkIdle /\ CsIdle /\ RsIdle

NextVec ==
    \/ BuildWithoutKey \/ BuildVectorDatabase \/ BuildEncodeRaises
    \/ ChangeDocuments

SpecVec == InitVec /\ [][NextVec]_vars

InitPipe == PpInit /\ BfsIdle /\ NmIdle /\ QaIdle /\ KgIdle /\ RlIdle /\ StIdle /\ VdIdle /\ BkIdle /\ CsIdle /\ RsIdle

NextPipe == StageCrawl \/ StageKg \/ StageVectordb \/ StageQa

SpecPipe == InitPipe /\ [][NextPipe]_vars

InitBuild == BkInit /\ BfsIdle /\ NmIdle /\ QaIdle /\ KgIdle /\ RlIdle /\ StIdle /\ VdIdle /\ PpIdle /\ CsIdle /\ RsIdle

NextBuild ==
    \/ ReturnEarly \/ ClearGraph \/ ExtractFile \/ EmptyFile \/ FileRaises
    \/ EndOfIteration \/ SaveToNeo4j

SpecBuild == InitBuild /\ [][NextBuild]_vars

InitConn == CsInit /\ BfsIdle /\ NmIdle /\ QaIdle /\ KgIdle /\ RlIdle /\ StIdle /\ VdIdle /\ PpIdle /\ BkIdle /\ RsIdle

\* the cached checks of the two stores
NextConn == Tick \/ CheckPinecone \/ CheckNeo4j \/ RefreshConnectionStatus

SpecConn == InitConn /\ [][NextConn]_vars

\* the cached RAG system and its resets
NextRag == GetRagSystem \/ RetryRagInitialization \/ RefreshConnectionStatus

SpecRag == InitConn /\ [][NextRag]_vars

InitStep == RsIdle /\ BfsIdle /\ NmIdle /\ QaIdle /\ KgIdle /\ RlIdle /\ StIdle /\ VdIdle /\ PpIdle /\ BkIdle /\ CsIdle

NextStep == ClickCrawl \/ ClickKg \/ ClickVectordb \/ ClickAll

SpecStep == InitStep /\ [][NextStep]_vars

-----------------------------------------------------------------------------
\* Properties of find_connected_subgraph

EntityNames == {e.name : e \in Range(all_entities)}

SeedSet == {e.name : e \in Range(matching_entities)}

ResultNames == {e.name : e \in Range(bfs_result.entities)}

\* m and n are joined by a relationship, in either direction, whose two
\* endpoints are both in the entity collection
Linked(m, n) ==
    \E r \in Range(all_relationships) :
        /\ r.source \in EntityNames
        /\ r.target \in EntityNames
        /\ \/ (r.source = m /\ r.target = n)
           \/ (r.source = n /\ r.target = m)

\* Names at shortest-path distance <= k from some seed
RECURSIVE WithinHops(_)
WithinHops(k) ==
    IF k = 0 THEN SeedSet
    ELSE LET p == WithinHops(k - 1)
         IN  p \cup {n \in Names : \E m \in p : Linked(m, n)}

\* C1: completeness -- every entity of the collection within max_depth hops
\* of some seed (relationships undirected, both endpoints in the
\* collection) is among the returned entities.
C1_Completeness ==
    bfs_pc = "done" =>
        \A e \in Range(all_entities) :
            e.name \in WithinHops(max_depth) => e \in Range(bfs_result.entities)

C1_Witness ==
    /\ bfs_pc = "done"
    /\ max_depth = 2
    /\ \E e \in Range(bfs_result.entities) :
          /\ e.name \in WithinHops(2) \ WithinHops(1)
          /\ \E r \in Range(all_relationships) :
                r.source = e.name /\ r.target \in WithinHops(1) \ SeedSet

\* C2: soundness -- every returned entity is within max_depth hops of some
\* seed; no entity farther away is returned.
C2_Soundness ==
    bfs_pc = "done" =>
        \A e \in Range(bfs_result.entities) : e.name \in WithinHops(max_depth)

C2_Witness ==
    /\ bfs_pc = "done"
    /\ bfs_result.entities # <<>>
    /\ \E e \in Range(all_entities) :
          /\ e.name \in WithinHops(max_depth + 1) \ WithinHops(max_depth)
          /\ e \notin Range(bfs_result.entities)

\* C3 (as stated): with max_depth = 0 the returned entities are exactly the
\* seeds present in the collection and no relationship is returned.
C3_NoRelationshipsAtDepthZero ==
    (bfs_pc = "done" /\ max_depth = 0) =>
        /\ ResultNames = SeedSet \cap EntityNames
        /\ bfs_result.relationships = <<>>

\* C3 (amended): with max_depth = 0 the returned entities are exactly the
\* seeds present in the collection, and the returned relationships are
\* exactly the relationships whose source and target are both seed names.
C3_DepthZeroInducedOnSeeds ==
    (bfs_pc = "done" /\ max_depth = 0) =>
        /\ bfs_result.entities =
              SelectSeq(all_entities, LAMBDA e : e.name \in SeedSet)
        /\ bfs_result.relationships =
              SelectSeq(all_relationships,
                        LAMBDA r : r.source \in SeedSet /\ r.target \in SeedSet)

C3_Witness ==
    /\ bfs_pc = "done"
    /\ max_depth = 0
    /\ bfs_result.relationships # <<>>
    /\ \E r \in Range(all_relationships) :
          /\ r.source \in SeedSet \cap EntityNames
          /\ r.target \in EntityNames \ SeedSet
          /\ r \notin Range(bfs_result.relationships)

\* C4: an empty seed list yields empty entities, empty relationships and
\* expanded_count 0, and no traversal is performed (no adjacency built,
\* nothing visited or queued, no queue pop).
C4_EmptySeeds ==
    (bfs_pc = "done" /\ matching_entities = <<>>) =>
        /\ bfs_result.entities = <<>>
        /\ bfs_result.relationships = <<>>
        /\ bfs_result.expanded_count = 0
        /\ adjacency = <<>>
        /\ visited = {}
        /\ queue = <<>>
        /\ bfs_pops = 0

C4_Witness ==
    /\ bfs_pc = "done"
    /\ matching_entities = <<>>
    /\ Len(all_entities) = 4
    /\ Len(all_relationships) = MaxRels

\* C18: for every input, seed lists that repeat a seed or name an entity
\* absent from the collection included, expanded_count equals the number of
\* returned entities whose name is not a seed name, and is never negative.
C18_ExpandedCountIsNonSeeds ==
    bfs_pc = "done" =>
        /\ bfs_result.expanded_count = Cardinality(ResultNames \ SeedSet)
        /\ bfs_result.expanded_count >= 0

\* The relationships whose two endpoints are in the entity collection, as
\* pairs in both directions
Links ==
    LET names == EntityNames
        sound == {r \in Range(all_relationships) :
                    r.source \in names /\ r.target \in names}
    IN  {<<r.source, r.target>> : r \in sound}
          \cup {<<r.target, r.source>> : r \in sound}

\* <<names within 0 hops of a seed, within 1 hop, ..., within k hops>>
RECURSIVE HopSets(_, _)
HopSets(k, links) ==
    IF k = 0 THEN <<SeedSet>>
    ELSE LET prev == HopSets(k - 1, links)
             p == prev[Len(prev)]
         IN  Append(prev, p \cup {l[2] : l \in {x \in links : x[1] \in p}})

\* C22: the depth recorded for each visited name is its shortest-path
\* distance to the nearest seed in the undirected graph (0 for a seed),
\* whatever the order of seeds and relationships: the name is within that
\* many hops of a seed and not within fewer.  The distance is fixed by the
\* inputs of the call, so a depth that equals it in every state of the
\* traversal is never changed after it is first set.
C22_DepthIsShortestDistance ==
    bfs_pc \in {"bfs", "done"} =>
        LET within == HopSets(max_depth, Links)
        IN  /\ DOMAIN depths = visited
            /\ \A n \in DOMAIN depths :
                  /\ depths[n] \in 0..max_depth
                  /\ n \in within[depths[n] + 1]
                  /\ depths[n] > 0 => n \notin within[depths[n]]
            /\ (bfs_pc = "done" /\ ~IsEmptySeeds(matching_entities))
                  => bfs_result.depths = depths

\* two seeds, and two names found at depth 1 from different seeds that are
\* linked to each other: each is met again when the other is expanded
C22_Witness ==
    /\ bfs_pc = "done"
    /\ Cardinality(SeedSet) = 2
    /\ \E n, m \in DOMAIN bfs_result.depths :
          /\ n # m
          /\ bfs_result.depths[n] = 1
          /\ bfs_result.depths[m] = 1
          /\ Linked(n, m)

QueuedNames == {queue[k][1] : k \in DOMAIN queue}

RECURSIVE HopsFrom(_, _, _)
HopsFrom(S, k, links) ==
    IF k = 0 THEN S
    ELSE LET p == HopsFrom(S, k - 1, links)
         IN  p \cup {l[2] : l \in {x \in links : x[1] \in p}}

\* C24: dangling references never extend reachability.  A relationship with
\* an endpoint outside the collection adds no adjacency in either direction;
\* a seed outside the collection is recorded at depth 0 and in
\* original_matches, and no other name becomes visited through it; the call
\* does not fail on either.
C24_DanglingNeverExtends ==
    (bfs_pc \in {"bfs", "done"} /\ ~IsEmptySeeds(matching_entities)) =>
        LET names == EntityNames
            seeds == SeedSet
            links == Links
        IN  /\ DOMAIN adjacency = names
            /\ \A n \in names :
                  \A m \in Range(adjacency[n]) : <<n, m>> \in links
            /\ \A n \in seeds \ names :
                  /\ n \in DOMAIN depths /\ depths[n] = 0
                  /\ n \in original_matches
            /\ visited \ (seeds \ names)
                  \subseteq HopsFrom(seeds \cap names, max_depth, links)
            /\ (bfs_pc = "bfs" /\ queue # <<>> /\ Head(queue)[1] \notin names)
                  => ENABLED BfsStep

\* a returned call whose only seed is outside the collection and is the
\* source of a relationship to an entity of the collection
C24_Witness ==
    /\ bfs_pc = "done"
    /\ max_depth >= 1
    /\ SeedSet = {"d"}
    /\ "d" \notin EntityNames
    /\ \E r \in Range(all_relationships) : r.source = "d" /\ r.target \in EntityNames
    /\ \E r \in Range(all_relationships) : r.target = "d" /\ r.source \in EntityNames
    /\ bfs_result.depths = [n \in {"d"} |-> 0]
    /\ bfs_result.original_matches = {"d"}
    /\ bfs_result.entities = <<>>

\* C25: the returned subgraph is closed -- the source and the target of
\* every returned relationship are names of returned entities.
C25_SubgraphClosed ==
    bfs_pc = "done" =>
        \A r \in Range(bfs_result.relationships) :
            r.source \in ResultNames /\ r.target \in ResultNames

-----------------------------------------------------------------------------
\* Properties of RAGPipeline.answer_question

\* The vector query of the current call has returned
Retrieved == qa_pc \in {"assemble", "llm", "returned"} /\ qa_failed \notin {"embedding", "query"}

NoUsableContext ==
    \A k \in DOMAIN results.matches : MatchText(results.matches[k]) = ""

\* C5: when the vector query returns zero matches, or only matches with
\* empty text, the call makes no LLM completion and returns the fixed
\* plain-string response (line 51 for zero matches, line 75 for matches
\* without text).
C5_NoLlmWithoutContext ==
    (Retrieved /\ NoUsableContext) =>
        /\ llm_calls = 0
        /\ qa_pc # "llm"
        /\ qa_pc = "returned" =>
              qa_result = IF Len(results.matches) = 0
                          THEN NoMatchesMessage ELSE NoContentMessage

C5_Witness ==
    /\ qa_pc = "returned"
    /\ qa_failed = "none"
    /\ Len(results.matches) = 2
    /\ NoUsableContext
    /\ qa_result = NoContentMessage
    /\ llm_calls = 0

\* C6: every call returns a record with the four fields answer, sources,
\* confidence_scores and context_used, in every outcome.
C6_AlwaysRecord ==
    qa_pc = "returned" =>
        DOMAIN qa_result = {"answer", "sources", "confidence_scores", "context_used"}

\* C16: an embedding failure is not swallowed: a call of answer_question in
\* which the embedding model raised does not end in a normal return, and a
\* run of build_vector_database in which it raised ends with the exception
\* raised to the caller.
C16_EmbeddingFailureSurfaced ==
    /\ qa_failed = "embedding" => qa_pc # "returned"
    /\ vd_failed = "embedding" => vd_pc = "raised"

\* Positions of the retrieved matches whose text is not empty
TextPositions ==
    {k \in DOMAIN results.matches :
        /\ "metadata" \in DOMAIN results.matches[k]
        /\ "text" \in DOMAIN results.matches[k].metadata
        /\ results.matches[k].metadata.text # ""}

\* C27: in every record answer_question returns, sources and
\* confidence_scores have the same length, which is context_used and is at
\* least 1, and their i-th elements come from the same retrieved match: the
\* matches with non-empty text, in retrieval order, each with its raw score.
C27_SourcesAlignedWithScores ==
    "answer" \in DOMAIN qa_result =>
        LET n == qa_result.context_used
        IN  /\ n >= 1
            /\ Len(qa_result.sources) = n
            /\ Len(qa_result.confidence_scores) = n
            /\ \E f \in [1..n -> DOMAIN results.matches] :
                  /\ {f[i] : i \in 1..n} = TextPositions
                  /\ \A i, j \in 1..n : i < j => f[i] < f[j]
                  /\ \A i \in 1..n :
                        LET match == results.matches[f[i]]
                        IN  /\ qa_result.confidence_scores[i] = match.score
                            /\ qa_result.sources[i] =
                                  IF "source" \in DOMAIN match.metadata
                                  THEN match.metadata.source ELSE "Document"

\* a returned record built from two matches of which the first has no text
C27_Witness ==
    /\ "answer" \in DOMAIN qa_result
    /\ Len(results.matches) = 2
    /\ 1 \notin TextPositions
    /\ qa_result.context_used = 1
    /\ qa_result.confidence_scores = <<results.matches[2].score>>

-----------------------------------------------------------------------------
\* Properties of the build_knowledge_graph merge loop

EntityNamesOf(ents) == {ents[k].name : k \in DOMAIN ents}

\* The k-th element of s, for the indices k of idx, in increasing order
Pick(s, idx) ==
    [n \in 1..Cardinality(idx) |->
        s[CHOOSE k \in idx : Cardinality({j \in idx : j <= k}) = n]]

\* The entities of part that are the first occurrence, in part, of a
\* non-empty name not in have
FirstNew(part, have) ==
    Pick(part, {k \in DOMAIN part :
                   /\ part[k].name # <<>>
                   /\ part[k].name \notin have
                   /\ \A j \in 1..(k - 1) : part[j].name # part[k].name})

\* C7: in the accumulated graph no two entities have the same normalized
\* name and none has an empty name; the entities are in first-seen order
\* with the type of their first occurrence: merging a file keeps the
\* entities already held, in place and with their type, and appends the
\* first occurrence of each new non-empty name in the order of the file's
\* extraction result.
C7_EntityDedup ==
    /\ \A j, k \in DOMAIN final_kg.entities :
          j # k => normalize_name(final_kg.entities[j].name)
                     # normalize_name(final_kg.entities[k].name)
    /\ \A k \in DOMAIN final_kg.entities : final_kg.entities[k].name # <<>>
    /\ final_kg.entities =
          kg_before.entities
              \o FirstNew(kg_part.entities, EntityNamesOf(kg_before.entities))

\* a second file names, in another style and with another type, an entity
\* the first file named; the first type is kept
C7_Witness ==
    /\ kg_pc = "after_file"
    /\ md_i = 1
    /\ Len(kg_before.entities) = 1
    /\ kg_before.entities[1] = [name |-> <<"a", "_", "3">>, type |-> S_organization]
    /\ Len(kg_part.entities) = 2
    /\ kg_part.entities[1] = [name |-> <<"a", "_", "3">>, type |-> S_satellite]
    /\ kg_part.entities[2].name = <<"3">>
    /\ Len(final_kg.entities) = 2

\* C8: the accumulated graph holds at most one relationship for each
\* (source, target, relation) triple, also when one extraction result
\* repeats a triple.
C8_RelationshipDedup ==
    \A j, k \in DOMAIN final_kg.relationships :
        j # k => RelTuple(final_kg.relationships[j]) # RelTuple(final_kg.relationships[k])

\* one extraction result holds the same triple twice, and the accumulated
\* graph holds it once
C8_Witness ==
    /\ kg_pc = "after_file"
    /\ Len(kg_part.relationships) = 2
    /\ RelTuple(kg_part.relationships[1]) = RelTuple(kg_part.relationships[2])
    /\ kg_before.relationships = <<>>
    /\ Len(final_kg.relationships) = 1

-----------------------------------------------------------------------------
\* Properties of normalize_name

\* C9: normalize_name is idempotent: normalize_name(normalize_name(x)) =
\* normalize_name(x) for every string x over Chars.
C9_Idempotent == nm_pc = "twice" => nm_out2 = nm_out

C9_Witness ==
    /\ nm_pc = "twice"
    /\ nm_out # nm_text
    /\ Len(nm_out) = 2
    /\ "_" \in Range(nm_text)

\* C10: two names that differ only in letter case and in which of '-', '_'
\* and space is used as separator normalize to the same result.
C10_StyleInsensitive == nm_pc = "variant" => nm_variant_out = nm_out

C10_Witness ==
    /\ nm_pc = "variant"
    /\ nm_text = <<"A", "-", "3">>
    /\ nm_variant = <<"a", " ", "3">>
    /\ nm_out = <<"a", "_", "3">>

-----------------------------------------------------------------------------
\* Properties of normalize_relation

AllWhitespace(s) == \A k \in DOMAIN s : s[k] \in Whitespace

\* C11: normalize_relation returns "relates_to" for the empty string, for a
\* string of whitespace only and for a value that is not a string, and it
\* never returns an empty relation.
C11_DefaultNeverEmpty ==
    rl_pc = "done" =>
        /\ rl_out # <<>>
        /\ (~rl_arg.is_str \/ AllWhitespace(rl_arg.chars)) => rl_out = S_relates_to

-----------------------------------------------------------------------------
\* Properties of Neo4jKnowledgeGraph.add_entities_and_relationships

-----------------------------------------------------------------------------
\* Properties of build_vector_database

\* C13: after a rebuild over a document set D2 of an index built from a
\* document set D1, the index holds exactly the chunks of D2: its ids are
\* the ids of the chunks of D2 (none that only D1 produced) and every id
\* carries a chunk of D2.
C13_RebuildReplacesAll ==
    vd_pc = "rebuilt" =>
        /\ DOMAIN vd_index = {c.id : c \in Range(vd_chunks)}
        /\ \A i \in DOMAIN vd_index :
              \E c \in Range(vd_chunks) :
                  c.id = i /\ vd_index[i] = [text |-> c.text, source |-> c.source]

\* C26: within one run no two chunks receive the same id, so a build into
\* an empty index leaves one vector per chunk, for every set of markdown
\* files, files of the same base name in different directories included.
C26_ChunkIdsUnique ==
    vd_pc = "built" =>
        /\ \A j, k \in DOMAIN vd_chunks :
              vd_chunks[j].id = vd_chunks[k].id => j = k
        /\ Cardinality(DOMAIN vd_index) = Len(vd_chunks)

-----------------------------------------------------------------------------
\* Properties of run_pipeline.main

\* C14: with --force, every selected build step (crawl, kg, vectordb) has
\* been run when main ends, whatever output existed at the start.
C14_ForceRerunsSelected ==
    (pp_pc = "done" /\ force) =>
        \A st \in {"crawl", "kg", "vectordb"} : Selected(st) => st \in pp_ran

-----------------------------------------------------------------------------
\* Properties of build_knowledge_graph, the whole run

Count(s, x) == Cardinality({k \in DOMAIN s : s[k] = x})

\* C15: whenever the LLM call raises, returns empty text, returns text that
\* is not JSON even after the trim, or returns JSON that does not match the
\* schema, the extraction yields an empty KnowledgeGraph and the graph
\* merged from the earlier documents is kept; the loop goes on: every
\* document of the run is processed, whatever happened to the ones before.
C15_FailureNeverAborts ==
    /\ (bk_pc = "after_file" /\ bk_outcomes[Len(bk_outcomes)] \in FailureKinds) =>
          /\ bk_part = EmptyKG
          /\ bk_final_kg = bk_before
    /\ bk_pc \in {"loop", "after_file", "done"} =>
          /\ Len(bk_outcomes) = bk_i + (IF bk_pc = "after_file" THEN 1 ELSE 0)
          /\ Count(bk_events, "file") = Len(bk_outcomes)
    /\ bk_pc = "done" => Len(bk_outcomes) = md_files

\* the extraction of the first of two documents yields a graph, that of
\* the second fails on text that is not JSON even after the trim, and the
\* run ends with the graph of the first
C15_Witness ==
    /\ bk_pc = "done"
    /\ bk_outcomes = <<"json", "wrapped_invalid">>
    /\ Len(bk_final_kg.entities) = 1
    /\ Len(bk_final_kg.relationships) = 1

\* C19: in the run's sequence of external steps a delay lies between every
\* two LLM calls, whatever the files are (with content, empty, or raising
\* when read), and no delay follows the last document.
C19_DelayBetweenLlmCalls ==
    /\ \A i, j \in DOMAIN bk_events :
          (i < j /\ bk_events[i] = "llm" /\ bk_events[j] = "llm") =>
              \E k \in (i + 1)..(j - 1) : bk_events[k] = "sleep"
    /\ \A i, k \in DOMAIN bk_events :
          (/\ bk_events[i] = "file"
           /\ Count(SubSeq(bk_events, 1, i), "file") = md_files
           /\ k > i) => bk_events[k] # "sleep"

\* two documents with content: one delay, between the two LLM calls, and
\* none after the second
C19_Witness ==
    /\ bk_pc = "done"
    /\ bk_events = <<"clear", "file", "llm", "sleep", "file", "llm", "write">>

\* C20: the store is written once, after the last document has been
\* processed, and the clear of the store (the DETACH DELETE statement of
\* clear_graph) was run before it, as the first external step of the run;
\* nothing is written to the store while documents are still being
\* extracted.
C20_OneWriteAfterClear ==
    /\ bk_pc \in {"start", "loop", "after_file", "returned"} =>
          /\ bk_sent = <<>>
          /\ Count(bk_events, "write") = 0
    /\ bk_pc = "done" =>
          /\ Count(bk_events, "write") = 1
          /\ bk_events[Len(bk_events)] = "write"
          /\ Count(bk_events, "file") = md_files
          /\ Count(bk_events, "clear") = 1
          /\ bk_events[1] = "clear"

\* a run over two documents that cleared the store, extracted a graph and
\* wrote all of it after the second document
C20_Witness ==
    /\ bk_pc = "done"
    /\ md_files = 2
    /\ bk_cleared
    /\ Len(bk_outcomes) = 2
    /\ bk_sent # <<>>
    /\ bk_sent = StoreStatements(bk_final_kg)

\* C21: when the graph store is unavailable the run aborts: without a
\* connection at the start nothing is done; after a clear that failed no
\* LLM call and no store write is made; after a write that failed no
\* further statement is run on the store.
C21_StoreFailureAborts ==
    /\ ~bk_driver => (bk_events = <<>> /\ bk_sent = <<>>)
    /\ (Count(bk_events, "clear") > 0 /\ ~bk_cleared) =>
          /\ Count(bk_events, "llm") = 0
          /\ Count(bk_events, "write") = 0
    /\ bk_pc = "done" =>
          /\ Count(bk_events, "write") = 1
          /\ \E n \in 0..Len(StoreStatements(bk_final_kg)) :
                bk_sent = SubSeq(StoreStatements(bk_final_kg), 1, n)

-----------------------------------------------------------------------------
\* Properties of the dashboard's cached connection status

\* the step is a call of fn
CallOf(fn) == cs_seq' # cs_seq /\ cs_call'.fn = fn

\* no check result is recorded, or the recorded one is CacheSeconds old or
\* older
Stale(conn_state) ==
    \/ ~conn_state.checked
    \/ cs_now - conn_state.last_check[1] >= CacheSeconds

CheckOf(store) ==
    IF store = "pinecone" THEN "check_pinecone_connection_cached"
    ELSE "check_neo4j_connection_cached"

\* C28: the cached checks ask the external store only when no check result
\* is recorded or the recorded one is 300 s old or older; within 300 s they
\* return the recorded 'connected' and leave the cache unchanged; every
\* performed check, whatever its outcome, records checked = true and a new
\* last_check.
C28_CacheWindow ==
    [][/\ \A store \in {"pinecone", "neo4j"} :
            LET before == connection_status[store]
                after == connection_status'[store]
            IN  CallOf(CheckOf(store)) =>
                  /\ store \in cs_call'.queried => Stale(before)
                  /\ ~Stale(before) =>
                        /\ after = before
                        /\ cs_call'.queried = {}
                        /\ cs_call'.connected = before.connected
                  /\ Stale(before) =>
                        /\ after.checked
                        /\ after.last_check # before.last_check
                        /\ after.last_check \in {<<cs_now>>, <<cs_now'>>}
       /\ CallOf("refresh_connection_status") =>
            \A store \in {"pinecone", "neo4j"} :
                /\ connection_status'[store].checked
                /\ connection_status'[store].last_check # <<>>
                /\ connection_status'[store].last_check[1] >= cs_now
                /\ connection_status'[store].last_check[1] <= cs_now']_vars

\* a check answered from the cache one second before the recorded result
\* expires
C28_Witness ==
    /\ cs_call.fn = "check_pinecone_connection_cached"
    /\ cs_call.queried = {}
    /\ cs_call.connected
    /\ connection_status.pinecone.checked
    /\ connection_status.pinecone.connected
    /\ cs_now - connection_status.pinecone.last_check[1] = CacheSeconds - 1

\* C29: get_rag_system_cached constructs a RAGPipeline at most once between
\* resets when the construction succeeds: later calls return the recorded
\* instance without constructing.  A failed construction is not cached: it
\* records the error and leaves initialized = false and the instance empty,
\* and a call that finds no instance recorded tries the construction again.
C29_ConstructedOnce ==
    [][/\ rag_built' <= 1
       /\ CallOf("get_rag_system_cached") =>
            LET before == connection_status.rag_system
                after == connection_status'.rag_system
            IN  /\ before.instance # NoneValue =>
                      /\ cs_call'.constructed = "none"
                      /\ cs_call'.instance = before.instance
                      /\ after = before
                /\ before.instance = NoneValue => cs_call'.constructed # "none"
                /\ cs_call'.constructed = "ok" =>
                      /\ after.initialized
                      /\ after.instance = RagInstance
                      /\ cs_call'.instance = RagInstance
                /\ cs_call'.constructed = "raised" =>
                      /\ ~after.initialized
                      /\ after.instance = NoneValue
                      /\ after.error # NoneValue
                      /\ cs_call'.instance = NoneValue]_vars

\* a call answered with the instance constructed by an earlier call
C29_Witness ==
    /\ cs_call.fn = "get_rag_system_cached"
    /\ cs_call.constructed = "none"
    /\ cs_call.instance = RagInstance
    /\ connection_status.rag_system.initialized
    /\ rag_built = 1

-----------------------------------------------------------------------------
\* Properties of the dashboard's run_pipeline_step

\* The pipeline stage a module function carries out
StageOf(call) ==
    IF call = <<"crawler", "run_crawl">> THEN "crawl"
    ELSE IF call = <<"kg_builder", "build_knowledge_graph">> THEN "kg"
    ELSE IF call = <<"vector_db_builder", "build_vector_database">> THEN "vectordb"
    ELSE "other"

\* The stages a step names, in pipeline order
StagesNamed(step_arg) ==
    IF step_arg = "all" THEN <<"crawl", "kg", "vectordb">> ELSE <<step_arg>>

\* C30: run_pipeline_step(step) runs the step it names -- 'crawl' the
\* crawl, 'kg' the knowledge-graph build, 'vectordb' the vector-index
\* build, 'all' all of them in sequence (up to the first one that raises).
C30_StepRunsWhatItNames ==
    \A k \in DOMAIN rs_history :
        LET h == rs_history[k]
            stages == [i \in DOMAIN h.calls |-> StageOf(h.calls[i])]
            named == StagesNamed(h.step)
        IN  /\ stages # <<>>
            /\ Len(stages) <= Len(named)
            /\ stages = SubSeq(named, 1, Len(stages))
            /\ h.message \in {"Crawling completed!", "Knowledge graph built!",
                               "Vector database built!", "Full pipeline completed!"}
                  => stages = named

====
